---- MODULE Spec2Model ----
(***************************************************************************)
(* mat4py: savemat (the type-inference encoder) and loadmat (the tag       *)
(* stream decoder) of the MATLAB level-5 MAT-file format, modelled at the  *)
(* level of the bytes they write and read.                                 *)
(*                                                                         *)
(* Python values are tagged tuples:                                        *)
(*   <<"int", h, l>>    the integer h * 65536 + l, 0 <= l < 65536          *)
(*   <<"bool", b>>      True / False (a subclass of int in Python)         *)
(*   <<"float", m>>     the double m / 2                                   *)
(*   <<"str", cs>>      a string, cs its latin-1 codes                     *)
(*   <<"list", xs>>     a list                                             *)
(*   <<"dict", ps>>     a dict, ps its <<key codes, value>> items in order *)
(*   <<"None">>         None                                               *)
(* and, produced by struct.unpack only,                                    *)
(*   <<"tuple", xs>>, <<"bytes", bs>>, <<"floatx", bs>>, <<"intx", bs>>    *)
(* (the last two: a number outside the ranges above, kept as its bytes).   *)
(***************************************************************************)
EXTENDS Integers, Sequences, FiniteSets, TLC

Min(a, b) == IF a <= b THEN a ELSE b
Max(a, b) == IF a >= b THEN a ELSE b

\* ---------------------------------------------------------------- values

PyInt(h, l) == <<"int", h, l>>
IntOf(n) == <<"int", n \div 65536, n % 65536>>
Bool(b) == <<"bool", b>>
Float(m) == <<"float", m>>
Str(cs) == <<"str", cs>>
List(xs) == <<"list", xs>>
Dict(ps) == <<"dict", ps>>
None == <<"None">>

TypeOf(v) == v[1]

\* isinstance(v, int): bool is a subclass of int
IsInt(v) == v[1] \in {"int", "bool"}
IsFloat(v) == v[1] = "float"
IsStr(v) == v[1] = "str"
IsMapping(v) == v[1] = "dict"
\* isinstance(v, Sequence): str and list (tuple and bytes come from unpack)
IsSequence(v) == v[1] \in {"str", "list", "tuple", "bytes"}

\* the integer a bool stands for where Python uses it as a number
AsInt(v) == IF v[1] = "bool" THEN PyInt(0, IF v[2] THEN 1 ELSE 0) ELSE v

IntGT(a, b) == \/ AsInt(a)[2] > AsInt(b)[2]
               \/ AsInt(a)[2] = AsInt(b)[2] /\ AsInt(a)[3] > AsInt(b)[3]

\* len(v) of a str, list, dict, tuple or bytes
PyLen(v) == Len(v[2])

\* v[i] (0-based) of a str or a list; a str's item is a one-character str
Item(v, i) == IF v[1] = "str" THEN Str(<<v[2][i + 1]>>) ELSE v[2][i + 1]

DictKeys(d) == [i \in 1..Len(d[2]) |-> d[2][i][1]]
DictValues(d) == [i \in 1..Len(d[2]) |-> d[2][i][2]]
HasKey(d, k) == \E i \in 1..Len(d[2]) : d[2][i][1] = k
DictGet(d, k) == d[2][CHOOSE i \in 1..Len(d[2]) : d[2][i][1] = k][2]

\* ----------------------------------------------------------------- bytes

Zeros(n) == [i \in 1..n |-> 0]
Rev(s) == [i \in 1..Len(s) |-> s[Len(s) + 1 - i]]
\* bytes in little-endian order, as laid out for a host / file byte order
Order(le, big) == IF big THEN Rev(le) ELSE le

LE16(n) == <<n % 256, (n \div 256) % 256>>
LE32(n) == <<n % 256, (n \div 256) % 256, (n \div 65536) % 256,
             (n \div 16777216) % 256>>

RECURSIVE Flatten(_)
Flatten(ss) == IF Len(ss) = 0 THEN <<>> ELSE Head(ss) \o Flatten(Tail(ss))

\* ------------------------------------------------------- struct.pack

INT32_MAX == 2147483647

\* struct.pack of one value in format 'i': [exc, out]
pack_i(v, big) ==
    LET w == AsInt(v) IN
    IF ~IsInt(v) \/ w[2] < -32768 \/ w[2] > 32767
    THEN [exc |-> "struct.error", out |-> <<>>]
    ELSE [exc |-> "none",
          out |-> Order(LE16(w[3]) \o LE16(w[2]), big)]

\* format 'q'
pack_q(v, big) ==
    LET w == AsInt(v)
        ext == IF w[2] < 0 THEN 255 ELSE 0 IN
    IF ~IsInt(v)
    THEN [exc |-> "struct.error", out |-> <<>>]
    ELSE [exc |-> "none",
          out |-> Order(LE16(w[3]) \o LE32(w[2])
                        \o <<ext, ext>>, big)]

\* the w binary digits of n, 0 <= n < 2^w, most significant first
BitsOf(n, w) == [i \in 1..w |-> (n \div 2^(w - i)) % 2]

\* IEEE-754 binary64, most significant byte first, of the number whose
\* magnitude has the binary digits bits, the last k of them after the point
DoubleBytes(neg, bits, k) ==
    LET ones == {i \in 1..Len(bits) : bits[i] = 1} IN
    IF ones = {} THEN Zeros(8)
    ELSE LET first == CHOOSE i \in ones : \A j \in ones : i <= j
             E == 1023 + (Len(bits) - first) - k
             mant == SubSeq(bits, first + 1, Len(bits))
             b64 == <<IF neg THEN 1 ELSE 0>> \o BitsOf(E, 11) \o mant
                    \o Zeros(52 - Len(mant))
         IN [j \in 1..8 |->
                128 * b64[8 * j - 7] + 64 * b64[8 * j - 6]
                + 32 * b64[8 * j - 5] + 16 * b64[8 * j - 4]
                + 8 * b64[8 * j - 3] + 4 * b64[8 * j - 2]
                + 2 * b64[8 * j - 1] + b64[8 * j]]

\* the double m / 2
Double(m) == DoubleBytes(m < 0, BitsOf(IF m < 0 THEN -m ELSE m, 31), 1)

\* float(n) of an int (or bool) n = h * 65536 + l
DoubleOfInt(v) ==
    LET w == AsInt(v)
        neg == w[2] < 0
        ah == IF ~neg THEN w[2] ELSE IF w[3] = 0 THEN -w[2] ELSE -w[2] - 1
        al == IF ~neg \/ w[3] = 0 THEN w[3] ELSE 65536 - w[3]
    IN DoubleBytes(neg, BitsOf(ah, 31) \o BitsOf(al, 16), 0)

\* format 'd': an int is converted, anything else but a float is refused
pack_d(v, big) ==
    IF IsInt(v) THEN [exc |-> "none",
                      out |-> Order(Rev(DoubleOfInt(v)), big)]
    ELSE IF IsFloat(v) THEN [exc |-> "none",
                             out |-> Order(Rev(Double(v[2])), big)]
    ELSE [exc |-> "struct.error", out |-> <<>>]

\* one value in the format of element type fmt ('i', 'q', 'd')
pack_one(fmt, v, big) ==
    CASE fmt = "i" -> pack_i(v, big)
      [] fmt = "q" -> pack_q(v, big)
      [] fmt = "d" -> pack_d(v, big)

\* struct.pack('<n><fmt>', *vs): the values in order, the first error wins
RECURSIVE pack_all(_, _, _)
pack_all(fmt, vs, big) ==
    LET join(h, t) == IF h.exc # "none" THEN h
                      ELSE IF t.exc # "none" THEN t
                      ELSE [exc |-> "none", out |-> h.out \o t.out]
    IN  IF Len(vs) = 0 THEN [exc |-> "none", out |-> <<>>]
        ELSE join(pack_one(fmt, Head(vs), big), pack_all(fmt, Tail(vs), big))

\* -------------------------------------------------------------- tables

etypes ==
    [miINT8 |-> [n |-> 1, fmt |-> "b"], miUINT8 |-> [n |-> 2, fmt |-> "B"],
     miINT16 |-> [n |-> 3, fmt |-> "h"], miUINT16 |-> [n |-> 4, fmt |-> "H"],
     miINT32 |-> [n |-> 5, fmt |-> "i"], miUINT32 |-> [n |-> 6, fmt |-> "I"],
     miSINGLE |-> [n |-> 7, fmt |-> "f"], miDOUBLE |-> [n |-> 9, fmt |-> "d"],
     miINT64 |-> [n |-> 12, fmt |-> "q"], miUINT64 |-> [n |-> 13, fmt |-> "Q"],
     miMATRIX |-> [n |-> 14, fmt |-> ""],
     miCOMPRESSED |-> [n |-> 15, fmt |-> ""],
     miUTF8 |-> [n |-> 16, fmt |-> "s"], miUTF16 |-> [n |-> 17, fmt |-> "s"],
     miUTF32 |-> [n |-> 18, fmt |-> "s"]]

mclasses ==
    [mxCELL_CLASS |-> 1, mxSTRUCT_CLASS |-> 2, mxOBJECT_CLASS |-> 3,
     mxCHAR_CLASS |-> 4, mxSPARSE_CLASS |-> 5, mxDOUBLE_CLASS |-> 6,
     mxSINGLE_CLASS |-> 7, mxINT8_CLASS |-> 8, mxUINT8_CLASS |-> 9,
     mxINT16_CLASS |-> 10, mxUINT16_CLASS |-> 11, mxINT32_CLASS |-> 12,
     mxUINT32_CLASS |-> 13, mxINT64_CLASS |-> 14, mxUINT64_CLASS |-> 15,
     mxFUNCTION_CLASS |-> 16, mxOPAQUE_CLASS |-> 17,
     mxOBJECT_CLASS_FROM_MATRIX_H |-> 18]

numeric_class_etypes ==
    [mxDOUBLE_CLASS |-> "miDOUBLE", mxSINGLE_CLASS |-> "miSINGLE",
     mxINT8_CLASS |-> "miINT8", mxUINT8_CLASS |-> "miUINT8",
     mxINT16_CLASS |-> "miINT16", mxUINT16_CLASS |-> "miUINT16",
     mxINT32_CLASS |-> "miINT32", mxUINT32_CLASS |-> "miUINT32",
     mxINT64_CLASS |-> "miINT64", mxUINT64_CLASS |-> "miUINT64"]

\* no narrower type stands in for a class's own
compressed_numeric_none == {}

compressed_numeric == {"miINT32", "miUINT16", "miINT16", "miUINT8"}

\* any(diff(ns)): two neighbours of the sequence differ
AnyDiff(ns) == \E i \in 1..(Len(ns) - 1) : ns[i] # ns[i + 1]

\* ------------------------------------------------------ writer results
\* What a write_* call did: the exception it raised ("none": it returned),
\* the bytes it wrote to its stream, and the offsets (from where it started
\* writing) at which a regular-tag element it wrote ended.

Wrote(bs, es) == [exc |-> "none", out |-> bs, ends |-> es]
Raised(e) == [exc |-> e, out |-> <<>>, ends |-> {}]

\* r1's writes followed by r2's, unless r1 raised
Then(r1, r2) ==
    IF r1.exc # "none" THEN r1
    ELSE IF r2.exc # "none" THEN r2
    ELSE Wrote(r1.out \o r2.out,
               r1.ends \cup {Len(r1.out) + e : e \in r2.ends})

\* -------------------------------------------------------------- savemat

\* struct.calcsize of one item of a numeric format
calcsize(fmt) ==
    CASE fmt \in {"b", "B", "s"} -> 1
      [] fmt \in {"h", "H"} -> 2
      [] fmt \in {"i", "I", "f"} -> 4
      [] fmt \in {"d", "q", "Q"} -> 8

\* the test that selects the Small Data Element form
is_sde(num_bytes) == num_bytes <= 4

\* pad8 with the padding left out
pad8_none(num_bytes) == 0

\* pad bytes after a regular element's payload
pad8(num_bytes) == IF num_bytes % 8 # 0 THEN 8 - (num_bytes % 8) ELSE 0

\* the 8-byte regular tag struct.pack('b3xI', n, num_bytes)
regular_tag(n, num_bytes, big) == <<n, 0, 0, 0>> \o Order(LE32(num_bytes), big)

\* the first half of an SDE tag, struct.pack('hh', n, num_bytes)
sde_tag(n, num_bytes, big) ==
    Order(LE16(n), big) \o Order(LE16(num_bytes), big)

write_elements(mtp, data, is_name, big) ==
    LET fmt == etypes[mtp].fmt
        strs == IsSequence(data) /\ (fmt = "s" \/ is_name)
        emit(packed, num_bytes) ==
            IF strs /\ data[1] = "bytes" /\ is_name /\ Len(data[2]) > 31
            THEN Raised("ValueError")
            ELSE IF packed.exc # "none" THEN Raised(packed.exc)
            ELSE IF is_sde(num_bytes)
            THEN Wrote(sde_tag(etypes[mtp].n, num_bytes, big)
                       \o packed.out \o Zeros(4 - num_bytes), {})
            ELSE Wrote(regular_tag(etypes[mtp].n, num_bytes, big)
                       \o packed.out \o Zeros(pad8(num_bytes)),
                       {8 + num_bytes + pad8(num_bytes)})
        sized(packed) ==
            emit(packed,
                 IF strs THEN Len(packed.out)
                 ELSE IF IsSequence(data) THEN Len(data[2]) * calcsize(fmt)
                 ELSE calcsize(fmt))
    IN  sized(IF strs
              THEN [exc |-> "none",
                    out |-> IF data[1] = "bytes" THEN data[2]
                            ELSE Flatten([i \in 1..Len(data[2]) |->
                                              data[2][i][2]])]
              ELSE IF IsSequence(data) THEN pack_all(fmt, data[2], big)
              ELSE pack_one(fmt, data, big))

write_var_header(header, big) ==
    Then(Wrote(regular_tag(etypes["miUINT32"].n, 8, big)
               \o <<mclasses[header.mclass], 0, 0, 0, 0, 0, 0, 0>>, {16}),
    Then(write_elements("miINT32",
                        <<"tuple", <<IntOf(header.dims[1]),
                                     IntOf(header.dims[2])>> >>, FALSE, big),
         write_elements("miINT8", <<"bytes", header.name>>, TRUE, big)))

\* the matrix element around what was written to the memory file bd
write_var_data(bd, big) ==
    IF bd.exc # "none" THEN bd
    ELSE Wrote(regular_tag(etypes["miMATRIX"].n, Len(bd.out), big) \o bd.out,
               {8 + e : e \in bd.ends} \cup {8 + Len(bd.out)})

\* list(chain.from_iterable(izip(*array))): the rows' items, column by column
Transpose(array) ==
    LET R == Len(array[2])
        C == IF R = 0 THEN 0
             ELSE CHOOSE c \in 0..Len(array[2][1][2]) :
                     /\ \A i \in 1..R : Len(array[2][i][2]) >= c
                     /\ \E i \in 1..R : Len(array[2][i][2]) = c
    IN [k \in 1..(R * C) |-> array[2][((k - 1) % R) + 1][2][((k - 1) \div R) + 1]]

write_numeric_array(header, array, big) ==
    write_var_data(
        Then(write_var_header(header, big),
             write_elements(header.mtp,
                            IF ~IsStr(array) /\ header.dims[1] > 1
                            THEN List(Transpose(array)) ELSE array,
                            FALSE, big)),
        big)

\* [asbytes(c) for c in s]
CharBytes(s) == List([i \in 1..Len(s[2]) |-> <<"bytes", <<s[2][i]>> >>])

write_char_array(header, array, big) ==
    write_numeric_array(
        header,
        IF IsStr(array) THEN CharBytes(array)
        ELSE List([i \in 1..Len(array[2]) |-> CharBytes(array[2][i])]),
        big)

\* v[i] of Python: [exc, val]
Subscript(v, i) ==
    CASE v[1] \in {"list", "str"} ->
             IF i < Len(v[2]) THEN [exc |-> "none", val |-> Item(v, i)]
             ELSE [exc |-> "IndexError", val |-> None]
      [] v[1] = "dict" -> [exc |-> "KeyError", val |-> None]
      [] OTHER -> [exc |-> "TypeError", val |-> None]

\* what iterating e yields (for e in ...): a str's characters, a list's
\* items, a dict's keys; numbers, booleans and None are not iterable
Iterable(e) == e[1] \in {"str", "list", "dict", "tuple", "bytes"}
Iter(e) ==
    CASE e[1] = "str" -> [i \in 1..Len(e[2]) |-> Str(<<e[2][i]>>)]
      [] e[1] = "dict" -> [i \in 1..Len(e[2]) |-> Str(e[2][i][1])]
      [] e[1] \in {"list", "tuple"} -> e[2]
      [] OTHER -> <<>>

\* the tests guess_header gives isarray: lambda i: isinstance(i, ...)
IsNumber(v) == IsInt(v) \/ IsFloat(v)
IsSimple(v) == IsInt(v) \/ IsFloat(v) \/ IsStr(v) \/ IsSequence(v)
               \/ IsMapping(v)
Test(test, v) ==
    CASE test = "int" -> IsInt(v)
      [] test = "number" -> IsNumber(v)
      [] test = "str" -> IsStr(v)
      [] test = "Sequence" -> IsSequence(v)
      [] test = "simple" -> IsSimple(v)

\* isarray(array, test, dim): "True", "False", or "TypeError" when an
\* element that is not iterable is reached before the answer is known
isarray(array, test, dim) ==
    IF dim > 1
    THEN LET inner(i) ==
                 LET e == Item(array, i) IN
                 IF ~Iterable(e) THEN "TypeError"
                 ELSE IF \A j \in 1..Len(Iter(e)) : Test(test, Iter(e)[j])
                      THEN "True" ELSE "False"
             bad == {i \in 0..(PyLen(array) - 1) : inner(i) # "True"}
         IN IF bad = {} THEN "True"
            ELSE inner(CHOOSE i \in bad : \A j \in bad : i <= j)
    ELSE IF \A j \in 1..Len(Iter(array)) : Test(test, Iter(array)[j])
         THEN "True" ELSE "False"

Header(mc, mtp, dims) == [mclass |-> mc, mtp |-> mtp, dims |-> dims]
NoHeader == Header("", "", <<0, 0>>)
Guessed(h, a, name) ==
    [exc |-> "none",
     header |-> [mclass |-> h.mclass, mtp |-> h.mtp, dims |-> h.dims,
                 name |-> name],
     array |-> a]
GuessRaised(e, a) ==
    [exc |-> e,
     header |-> [mclass |-> "", mtp |-> "", dims |-> <<0, 0>>, name |-> <<>>],
     array |-> a]

\* Int64 above INT32_MAX, Int32 otherwise
int_header(big_value, dims) ==
    IF big_value THEN Header("mxINT64_CLASS", "miINT64", dims)
    ELSE Header("mxINT32_CLASS", "miINT32", dims)

\* the header of a dict: [exc, header]
mapping_header(array) ==
    LET vals == DictValues(array)
        field_types == [i \in 1..Len(vals) |-> TypeOf(vals[i])]
        no_len == \E i \in 1..Len(vals) : vals[i][1] = "None"
        field_lengths ==
            [i \in 1..Len(vals) |->
                IF IsStr(vals[i]) \/ IsInt(vals[i]) \/ IsFloat(vals[i])
                THEN 1 ELSE PyLen(vals[i])]
        equal_lengths == Len(vals) = 1 \/ ~AnyDiff(field_lengths)
        equal_types == Len(vals) = 1
                       \/ \A i \in 1..Len(vals) : field_types[i] = field_types[1]
    IN  IF no_len THEN [exc |-> "TypeError", header |-> NoHeader]
        ELSE IF equal_lengths /\ equal_types
        THEN IF Len(vals) = 0
             THEN [exc |-> "IndexError", header |-> NoHeader]
             ELSE [exc |-> "none",
                   header |-> Header("mxSTRUCT_CLASS", "",
                                     <<1, field_lengths[1]>>)]
        ELSE [exc |-> "none",
              header |-> Header("mxSTRUCT_CLASS", "", <<1, 1>>)]

\* the header of a list of two or more items: [exc, header]
sequence_header(array) ==
    LET n == PyLen(array)
        items == array[2]
        lens == [i \in 1..n |-> PyLen(items[i])]
        rows == <<n, IF n > 0 /\ IsSequence(items[1]) THEN lens[1] ELSE 0>>
        ok(h) == [exc |-> "none", header |-> h]
    IN
    IF isarray(array, "int", 1) = "True"
    THEN ok(int_header(\E i \in 1..n : IntGT(items[i], IntOf(INT32_MAX)),
                       <<1, n>>))
    ELSE IF isarray(array, "number", 1) = "True"
    THEN ok(Header("mxDOUBLE_CLASS", "miDOUBLE", <<1, n>>))
    ELSE IF isarray(array, "Sequence", 1) = "True" /\ AnyDiff(lens)
    THEN ok(Header("mxCELL_CLASS", "", <<1, n>>))
    ELSE IF isarray(array, "str", 1) = "True"
    THEN ok(Header("mxCHAR_CLASS", "miUTF8", rows))
    ELSE IF isarray(array, "Sequence", 1) = "True"
    THEN IF AnyDiff(lens)
         THEN ok(Header("mxCELL_CLASS", "", rows))
         ELSE IF isarray(array, "int", 2) = "True"
         THEN IF \E i \in 1..n : lens[i] = 0
              THEN [exc |-> "ValueError", header |-> NoHeader]
              ELSE ok(int_header(
                       \E i \in 1..n : \E j \in 1..lens[i] :
                           IntGT(Item(items[i], j - 1), IntOf(INT32_MAX)),
                       rows))
         ELSE IF isarray(array, "number", 2) = "True"
         THEN ok(Header("mxDOUBLE_CLASS", "miDOUBLE", rows))
         ELSE ok(NoHeader)
    ELSE LET mixed == isarray(array, "simple", 2) IN
         IF mixed = "TypeError"
         THEN [exc |-> "TypeError", header |-> NoHeader]
         ELSE IF mixed = "True"
         THEN ok(Header("mxCELL_CLASS", "", <<1, n>>))
         ELSE ok(NoHeader)

guess_header(array0, name) ==
    LET array == IF IsSequence(array0) /\ PyLen(array0) = 1
                 THEN Item(array0, 0) ELSE array0
        ok(h) == [exc |-> "none", header |-> h]
        result(r) == IF r.exc # "none" THEN GuessRaised(r.exc, array)
                     ELSE IF r.header = NoHeader
                     THEN GuessRaised("ValueError", array)
                     ELSE Guessed(r.header, array, name)
    IN  result(IF IsStr(array)
               THEN ok(Header("mxCHAR_CLASS", "miUTF8",
                              <<IF PyLen(array) > 0 THEN 1 ELSE 0,
                                PyLen(array)>>))
               ELSE IF IsSequence(array) /\ PyLen(array) = 0
               THEN ok(Header("mxINT32_CLASS", "miINT32", <<0, 0>>))
               ELSE IF IsMapping(array) THEN mapping_header(array)
               ELSE IF IsInt(array)
               THEN ok(int_header(IntGT(array, IntOf(INT32_MAX)), <<1, 1>>))
               ELSE IF IsFloat(array)
               THEN ok(Header("mxDOUBLE_CLASS", "miDOUBLE", <<1, 1>>))
               ELSE IF IsSequence(array) THEN sequence_header(array)
               ELSE ok(NoHeader))

RECURSIVE write_var_array(_, _, _)

\* write_var_array(bd, vdata) for each [exc, val] of vs in turn; a vdata
\* whose evaluation raised stops the loop with that exception
RECURSIVE write_each(_, _)
write_each(vs, big) ==
    IF Len(vs) = 0 THEN Wrote(<<>>, {})
    ELSE Then(IF Head(vs).exc # "none" THEN Raised(Head(vs).exc)
              ELSE write_var_array(Head(vs).val, <<>>, big),
              write_each(Tail(vs), big))

write_cell_array(header, array, big) ==
    LET R == header.dims[1]
        C == header.dims[2]
        vdata(row, col) ==
            IF R > 1
            THEN LET a == Subscript(array, row) IN
                 IF a.exc # "none" THEN a ELSE Subscript(a.val, col)
            ELSE Subscript(array, col)
    IN write_var_data(
           Then(write_var_header(header, big),
                write_each([k \in 1..(R * C) |->
                               vdata((k - 1) \div C, (k - 1) % C)], big)),
           big)

\* write_struct_array without the limit on the field name length
write_struct_array_no_limit(header, array, big) ==
    LET R == header.dims[1]
        C == header.dims[2]
        fieldnames == DictKeys(array)
        F == Len(fieldnames)
        longest == CHOOSE l \in {Len(fieldnames[i]) : i \in 1..F} :
                       \A i \in 1..F : Len(fieldnames[i]) <= l
        field_length == longest + 1
        padded == [i \in 1..F |->
                      <<"bytes",
                        fieldnames[i]
                        \o Zeros(field_length
                                 - (Len(fieldnames[i]) % field_length))>>]
        vdata(row, col, f) ==
            LET v == [exc |-> "none", val |-> DictValues(array)[f]] IN
            IF R > 1
            THEN LET a == Subscript(v.val, col) IN
                 IF a.exc # "none" THEN a ELSE Subscript(a.val, row)
            ELSE IF C > 1 THEN Subscript(v.val, col)
            ELSE v
    IN write_var_data(
           Then(write_var_header(header, big),
                IF F = 0 THEN Raised("ValueError")
                ELSE Then(write_elements("miINT32", IntOf(field_length),
                                         FALSE, big),
                     Then(write_elements("miINT8", List(padded), TRUE, big),
                          write_each(
                              [k \in 1..(R * C * F) |->
                                  vdata((k - 1) \div (C * F),
                                        ((k - 1) \div F) % C,
                                        ((k - 1) % F) + 1)], big)))),
           big)

write_struct_array(header, array, big) ==
    LET R == header.dims[1]
        C == header.dims[2]
        fieldnames == DictKeys(array)
        F == Len(fieldnames)
        longest == CHOOSE l \in {Len(fieldnames[i]) : i \in 1..F} :
                       \A i \in 1..F : Len(fieldnames[i]) <= l
        field_length == longest + 1
        padded == [i \in 1..F |->
                      <<"bytes",
                        fieldnames[i]
                        \o Zeros(field_length
                                 - (Len(fieldnames[i]) % field_length))>>]
        vdata(row, col, f) ==
            LET v == [exc |-> "none", val |-> DictValues(array)[f]] IN
            IF R > 1
            THEN LET a == Subscript(v.val, col) IN
                 IF a.exc # "none" THEN a ELSE Subscript(a.val, row)
            ELSE IF C > 1 THEN Subscript(v.val, col)
            ELSE v
    IN write_var_data(
           Then(write_var_header(header, big),
                IF F = 0 \/ field_length > 32 THEN Raised("ValueError")
                ELSE Then(write_elements("miINT32", IntOf(field_length),
                                         FALSE, big),
                     Then(write_elements("miINT8", List(padded), TRUE, big),
                          write_each(
                              [k \in 1..(R * C * F) |->
                                  vdata((k - 1) \div (C * F),
                                        ((k - 1) \div F) % C,
                                        ((k - 1) % F) + 1)], big)))),
           big)

write_var_array(array0, name, big) ==
    LET write(g) ==
            IF g.exc # "none" THEN Raised(g.exc)
            ELSE IF g.header.mclass \in DOMAIN numeric_class_etypes
            THEN write_numeric_array(g.header, g.array, big)
            ELSE IF g.header.mclass = "mxCHAR_CLASS"
            THEN write_char_array(g.header, g.array, big)
            ELSE IF g.header.mclass = "mxCELL_CLASS"
            THEN write_cell_array(g.header, g.array, big)
            ELSE IF g.header.mclass = "mxSTRUCT_CLASS"
            THEN write_struct_array(g.header, g.array, big)
            ELSE Raised("ValueError")
    IN  write(guess_header(array0, name))

\* ----------------------------------------------------------------- zlib
\* zlib is modelled by its stored-block stream (what zlib.compress(data, 0)
\* produces): a 2-byte header, one stored block and the Adler-32 checksum.
\* The code compresses at the default level; the framing, the change of
\* length and the behaviour on truncated input are the same.

\* the sum of the bytes bs[lo..hi], each times k - i (times 1 when k = 0),
\* by halving
RECURSIVE WSum(_, _, _, _)
WSum(bs, k, lo, hi) ==
    IF lo > hi THEN 0
    ELSE IF lo = hi THEN (IF k = 0 THEN 1 ELSE k - lo) * bs[lo]
    ELSE LET mid == (lo + hi) \div 2 IN
         WSum(bs, k, lo, mid) + WSum(bs, k, mid + 1, hi)

\* Adler-32: a = 1 + the sum of the bytes, b = the sum of the running a's,
\* both modulo 65521, stored most significant byte first as b, a
Adler32(bs) ==
    LET n == Len(bs)
        a == (1 + WSum(bs, 0, 1, n)) % 65521
        b == (n + WSum(bs, n + 1, 1, n)) % 65521
    IN Rev(LE16(b)) \o Rev(LE16(a))

zlib_compress(bs) ==
    <<120, 1, 1>> \o LE16(Len(bs)) \o LE16(65535 - Len(bs)) \o bs
    \o Adler32(bs)

write_compressed_var_array(array, name, big) ==
    LET tagged(bd, data) ==
            Wrote(regular_tag(etypes["miCOMPRESSED"].n, Len(data), big)
                  \o data, bd.ends)
        compressed(bd) == IF bd.exc # "none" THEN bd
                          ELSE tagged(bd, zlib_compress(bd.out))
    IN  compressed(write_var_array(array, name, big))

\* -------------------------------------------------------- file header

\* 'MATLAB 5.0 MAT-file, created with mat4py on: '
DescText ==
    <<77, 65, 84, 76, 65, 66, 32, 53, 46, 48, 32, 77, 65, 84, 45, 102, 105,
      108, 101, 44, 32, 99, 114, 101, 97, 116, 101, 100, 32, 119, 105, 116,
      104, 32, 109, 97, 116, 52, 112, 121, 32, 111, 110, 58, 32>>

\* what time.strftime("%a, %b %d %Y %H:%M:%S") returned: the clock is
\* the environment's, one reading stands for all ('Mon, Jan 01 2024 00:00:00')
TimeText ==
    <<77, 111, 110, 44, 32, 74, 97, 110, 32, 48, 49, 32, 50, 48, 50, 52,
      32, 48, 48, 58, 48, 48, 58, 48, 48>>

\* struct.pack('<n>s', bs): bs cut or NUL-padded to n bytes
pack_s(n, bs) == IF Len(bs) >= n THEN SubSeq(bs, 1, n)
                 ELSE bs \o Zeros(n - Len(bs))

write_file_header(big) ==
    pack_s(116, DescText \o TimeText)
    \o pack_s(8, <<32, 32, 32, 32, 32, 32, 32, 32>>)
    \o Order(LE16(256), big)
    \o (IF big THEN <<77, 73>> ELSE <<73, 77>>)

\* savemat's loop over data.items() from item i on, fd holding out so far:
\* [exc, out]
RECURSIVE write_items(_, _, _, _)
write_items(data, i, out, big) ==
    LET next(w) == IF w.exc # "none" THEN [exc |-> w.exc, out |-> out]
                   ELSE write_items(data, i + 1, out \o w.out, big)
    IN  IF i > PyLen(data) THEN [exc |-> "none", out |-> out]
        ELSE next(write_compressed_var_array(data[2][i][2], data[2][i][1],
                                             big))

\* savemat(fd, data) run to its end: the exception and the bytes in fd
savemat_run(data, big) ==
    IF ~IsMapping(data) THEN [exc |-> "ValueError", out |-> <<>>]
    ELSE write_items(data, 1, write_file_header(big), big)

\* ------------------------------------------------------- struct.unpack

\* a file object: its bytes and its cursor (0-based)
Stream(buf, pos) == [buf |-> buf, pos |-> pos]
\* fd.read(n): at most n bytes, fewer at the end of the stream
ReadEnd(fd, n) == IF fd.pos >= Len(fd.buf) THEN fd.pos
                   ELSE IF n >= Len(fd.buf) - fd.pos THEN Len(fd.buf)
                   ELSE fd.pos + n
ReadBytes(fd, n) == SubSeq(fd.buf, fd.pos + 1, ReadEnd(fd, n))
AfterRead(fd, n) == Stream(fd.buf, ReadEnd(fd, n))

\* one value of format fmt from its bytes b, given in little-endian order
unpack_one(fmt, b) ==
    CASE fmt = "B" -> PyInt(0, b[1])
      [] fmt = "b" -> IF b[1] < 128 THEN PyInt(0, b[1])
                      ELSE PyInt(-1, 65280 + b[1])
      [] fmt = "H" -> PyInt(0, b[1] + 256 * b[2])
      [] fmt = "h" -> PyInt(IF b[2] < 128 THEN 0 ELSE -1, b[1] + 256 * b[2])
      [] fmt = "I" -> PyInt(b[3] + 256 * b[4], b[1] + 256 * b[2])
      [] fmt = "i" -> PyInt(b[3] + 256 * (IF b[4] < 128 THEN b[4]
                                          ELSE b[4] - 256),
                            b[1] + 256 * b[2])
      [] fmt \in {"q", "Q"} ->
            IF b[7] = 0 /\ b[8] = 0 /\ b[6] < 128
            THEN PyInt(b[3] + 256 * b[4] + 65536 * b[5] + 16777216 * b[6],
                       b[1] + 256 * b[2])
            ELSE IF fmt = "q" /\ b[7] = 255 /\ b[8] = 255 /\ b[6] >= 128
            THEN PyInt(b[3] + 256 * b[4] + 65536 * b[5]
                       + 16777216 * (b[6] - 256), b[1] + 256 * b[2])
            ELSE <<"intx", fmt, b>>
      [] fmt = "f" ->
            LET E == (b[4] % 128) * 2 + b[3] \div 128
                p == E - 126
                M23 == (b[3] % 128) * 65536 + b[2] * 256 + b[1]
            IN  IF b = Zeros(4) THEN Float(0)
                ELSE IF p >= 0 /\ p <= 23 /\ M23 % 2^(23 - p) = 0
                THEN Float((IF b[4] >= 128 THEN -1 ELSE 1)
                           * (2^p + M23 \div 2^(23 - p)))
                ELSE <<"floatx", b>>
      [] fmt = "d" ->
            LET E == (b[8] % 128) * 16 + b[7] \div 16
                p == E - 1022
                M28 == (b[7] % 16) * 16777216 + b[6] * 65536 + b[5] * 256
                       + b[4]
            IN  IF b = Zeros(8) THEN Float(0)
                ELSE IF p >= 0 /\ p <= 28 /\ b[1] = 0 /\ b[2] = 0 /\ b[3] = 0
                        /\ M28 % 2^(28 - p) = 0
                THEN Float((IF b[8] >= 128 THEN -1 ELSE 1)
                           * (2^p + M28 \div 2^(28 - p)))
                ELSE <<"floatx", b>>

\* unpack(endian, fmt, data): [exc, val]; val is a scalar when exactly one
\* value was read, a tuple otherwise, and the bytes themselves for 's'
unpack(big, fmt, data) ==
    IF fmt = "s" THEN [exc |-> "none", val |-> <<"bytes", data>>]
    ELSE LET size == calcsize(fmt)
             num == Len(data) \div size
             vals == [i \in 1..num |->
                         unpack_one(fmt, Order(SubSeq(data, (i - 1) * size + 1,
                                                      i * size), big))]
         IN  IF Len(data) # num * size
             THEN [exc |-> "struct.error", val |-> None]
             ELSE IF num = 1 THEN [exc |-> "none", val |-> vals[1]]
             ELSE [exc |-> "none", val |-> <<"tuple", vals>>]

\* unpack(endian, 'II', data): the format is str(len(data) // 8) + 'II'
unpack_II(big, data) ==
    LET num == Len(data) \div 8 + 1 IN
    IF Len(data) # num * 4 THEN [exc |-> "struct.error", val |-> None]
    ELSE unpack(big, "I", data)

\* a length read from the file as a number of bytes to read or skip; no
\* stream of the model is as long as 2^30 bytes, so a larger length reads
\* and skips as 2^30 plus its remainder modulo 8 does
NumOf(v) == IF v[2] >= 16384 THEN 1073741824 + (v[3] % 8)
            ELSE v[2] * 65536 + v[3]

\* -------------------------------------------------------------- loadmat
\* A read_* call returns [exc, val, fd]: the exception it raised ("none":
\* it returned val) and the stream with the cursor where the call left it.

Read(v, fd) == [exc |-> "none", val |-> v, fd |-> fd]
ReadRaised(e, fd) == [exc |-> e, val |-> None, fd |-> fd]

\* the one element of a set of one element: Only({e : x \in {v}}) is e
\* with the local name x bound to the value v, as after x = v
Only(S) == CHOOSE x \in S : TRUE

\* inv_etypes[n]
EtypeOf(n) == CHOOSE m \in DOMAIN etypes : etypes[m].n = n

\* [exc, mtpn, num_bytes, data, fd]; data is None for a regular element
read_element_tag(fd, big) ==
    LET data == ReadBytes(fd, 8)
        rest == SubSeq(data, 5, Len(data))
        tag(e, m, n, d) ==
            [exc |-> e, mtpn |-> m, num_bytes |-> n, data |-> d,
             fd |-> AfterRead(fd, 8)]
        typed(word) ==
            IF word[2] > 0
            THEN \* small data element format
                 IF word[2] > 4 THEN tag("ParseError", word[3], None, None)
                 ELSE tag("none", word[3], PyInt(0, word[2]),
                          <<"bytes", SubSeq(rest, 1, Min(word[2], Len(rest)))>>)
            ELSE \* regular element
                 IF Len(rest) = 0
                 THEN tag("none", word[3], <<"tuple", <<>> >>, None)
                 ELSE IF Len(rest) < 4 THEN tag("struct.error", 0, None, None)
                 ELSE tag("none", word[3], unpack_one("I", Order(rest, big)),
                          None)
    IN  IF Len(data) = 0 THEN tag("TypeError", 0, None, None)
        ELSE IF Len(data) < 4 THEN tag("struct.error", 0, None, None)
        ELSE typed(unpack_one("I", Order(SubSeq(data, 1, 4), big)))

\* [s for s in data.split(b'\0') if s]
SplitNul(bs) ==
    LET starts == {i \in 1..Len(bs) : bs[i] # 0 /\ (i = 1 \/ bs[i - 1] = 0)}
        stop(i) == CHOOSE j \in i..Len(bs) :
                       /\ \A k \in i..j : bs[k] # 0
                       /\ (j = Len(bs) \/ bs[j + 1] = 0)
    IN [k \in 1..Cardinality(starts) |->
           LET i == CHOOSE i \in starts :
                        Cardinality({j \in starts : j < i}) = k - 1
           IN SubSeq(bs, i, stop(i))]

read_elements(fd, big, mtps, is_name) ==
    LET named(names, fd1) ==
            Read(IF Len(names) = 0 THEN Str(<<>>)
                 ELSE IF Len(names) = 1 THEN Str(names[1])
                 ELSE List([i \in 1..Len(names) |-> Str(names[i])]), fd1)
        valued(u, fd1) == IF u.exc # "none" THEN ReadRaised(u.exc, fd1)
                          ELSE Read(u.val, fd1)
        parse(mtpn, data, fd1) ==
            IF is_name THEN named(SplitNul(data), fd1)
            ELSE valued(unpack(big, etypes[EtypeOf(mtpn)].fmt, data), fd1)
        skipped(f, mod8) ==
            Stream(f.buf, IF mod8 # 0 THEN f.pos + (8 - mod8) ELSE f.pos)
        full(t, n, f) ==
            parse(t.mtpn, ReadBytes(t.fd, n), skipped(f, t.num_bytes[3] % 8))
        tagged(t) ==
            IF t.exc # "none" THEN ReadRaised(t.exc, t.fd)
            ELSE IF t.mtpn \notin {etypes[m].n : m \in mtps}
            THEN ReadRaised("ParseError", t.fd)
            ELSE IF t.data # None /\ t.data[2] # <<>>
            THEN parse(t.mtpn, t.data[2], t.fd)
            ELSE IF t.num_bytes[1] = "tuple"
            THEN ReadRaised("TypeError", t.fd)
            ELSE full(t, NumOf(t.num_bytes),
                      AfterRead(t.fd, NumOf(t.num_bytes)))
    IN  tagged(read_element_tag(fd, big))

\* the int32 a dims entry holds
DimOf(v) == v[2] * 65536 + v[3]

NoMatHeader ==
    [mclass |-> 0, is_logical |-> FALSE, is_global |-> FALSE,
     is_complex |-> FALSE, nzmax |-> None, dims |-> <<0, 0>>, n_dims |-> 0,
     name |-> None]

\* [exc, header, fd]
read_header(fd, big) ==
    LET hdr(e, f) == [exc |-> e, header |-> NoMatHeader, fd |-> f]
        named(flag_class, nzmax, dims, nm) ==
            IF nm.exc # "none" THEN hdr(nm.exc, nm.fd)
            ELSE [exc |-> "none",
                  header |->
                      [mclass |-> flag_class[3] % 256,
                       is_logical |-> (flag_class[3] \div 512) % 2 = 1,
                       is_global |-> (flag_class[3] \div 1024) % 2 = 1,
                       is_complex |-> (flag_class[3] \div 2048) % 2 = 1,
                       nzmax |-> nzmax,
                       dims |-> <<DimOf(dims[1]), DimOf(dims[2])>>,
                       n_dims |-> 2,
                       name |-> nm.val],
                  fd |-> nm.fd]
        sized(flag_class, nzmax, d) ==
            IF d.exc # "none" THEN hdr(d.exc, d.fd)
            ELSE IF d.val[1] # "tuple" THEN hdr("TypeError", d.fd)
            ELSE IF Len(d.val[2]) # 2 THEN hdr("ParseError", d.fd)
            ELSE named(flag_class, nzmax, d.val[2],
                       read_elements(d.fd, big, {"miINT8"}, TRUE))
        flagged(a) ==
            IF a.exc # "none" THEN hdr(a.exc, a.fd)
            ELSE IF a.val[1] # "tuple" THEN hdr("TypeError", a.fd)
            ELSE IF Len(a.val[2]) # 2 THEN hdr("ValueError", a.fd)
            ELSE sized(a.val[2][1], a.val[2][2],
                       read_elements(a.fd, big, {"miINT32"}, FALSE))
    IN  flagged(read_elements(fd, big, {"miUINT32"}, FALSE))

\* zlib.decompressobj().decompress(data) of the stored-block stream:
\* [exc, out]. A stream that ends early gives what it holds and no error.
zlib_decompress(data) ==
    LET n == Len(data)
        len == data[4] + 256 * data[5]
        nlen == data[6] + 256 * data[7]
        body == SubSeq(data, 8, Min(7 + len, n))
        ok(bs) == [exc |-> "none", out |-> bs]
        bad == [exc |-> "zlib.error", out |-> <<>>]
    IN  IF n < 2 THEN ok(<<>>)
        ELSE IF data[1] % 16 # 8 \/ data[1] \div 16 > 7
                \/ (data[1] * 256 + data[2]) % 31 # 0
                \/ (data[2] \div 32) % 2 = 1
        THEN bad
        ELSE IF n < 3 THEN ok(<<>>)
        ELSE IF data[3] # 1 THEN bad
        ELSE IF n < 7 THEN ok(<<>>)
        ELSE IF len + nlen # 65535 THEN bad
        ELSE IF n >= 7 + len + 4
                /\ SubSeq(data, 8 + len, 11 + len) # Adler32(body)
        THEN bad
        ELSE ok(body)

\* read_var_header without the second read of the tag, the one from the
\* decompressed data
read_var_header_one_tag(fd, big) ==
    LET none(e, f) ==
            [exc |-> e, header |-> NoMatHeader, next_pos |-> 0, fd |-> f]
        headed(h, next_pos) ==
            [exc |-> h.exc, header |-> h.header, next_pos |-> next_pos,
             fd |-> h.fd]
    IN  Only({
          IF t.exc # "none" THEN none(t.exc, AfterRead(fd, 8))
          ELSE IF t.val[1] # "tuple" THEN none("TypeError", AfterRead(fd, 8))
          ELSE IF t.val[2][1] # IntOf(etypes["miMATRIX"].n)
          THEN none("ParseError", AfterRead(fd, 8))
          ELSE headed(read_header(AfterRead(fd, 8), big),
                      AfterRead(fd, 8).pos + NumOf(t.val[2][2]))
          : t \in {unpack_II(big, ReadBytes(fd, 8))}})

\* read_var_header with fd.tell() taken before the tag is read
read_var_header_early_tell(fd, big) ==
    LET none(e, f) ==
            [exc |-> e, header |-> NoMatHeader, next_pos |-> 0, fd |-> f]
        headed(h, next_pos) ==
            [exc |-> h.exc, header |-> h.header, next_pos |-> next_pos,
             fd |-> h.fd]
        matrix(t) ==
            IF t.exc # "none" THEN t.exc
            ELSE IF t.val[1] # "tuple" THEN "TypeError"
            ELSE IF t.val[2][1] # IntOf(etypes["miMATRIX"].n)
            THEN "ParseError"
            ELSE "none"
        compressed(t) ==
            /\ t.exc = "none"
            /\ t.val[1] = "tuple"
            /\ t.val[2][1] = IntOf(etypes["miCOMPRESSED"].n)
    IN  Only({
          IF t.exc # "none" THEN none(t.exc, AfterRead(fd, 8))
          ELSE IF t.val[1] # "tuple" THEN none("TypeError", AfterRead(fd, 8))
          ELSE Only({
            IF dcor.exc # "none" THEN none(dcor.exc, AfterRead(fd, 8))
            ELSE Only({
              IF matrix(t2) # "none"
              THEN none(matrix(t2), fd_var)
              ELSE headed(read_header(fd_var, big),
                          fd.pos + NumOf(t.val[2][2]))
              : <<t2, fd_var>> \in
                  {IF compressed(t)
                   THEN <<unpack_II(big, ReadBytes(Stream(dcor.out, 0), 8)),
                          AfterRead(Stream(dcor.out, 0), 8)>>
                   ELSE <<t, AfterRead(fd, 8)>>}})
            : dcor \in
                {IF compressed(t)
                 THEN zlib_decompress(ReadBytes(AfterRead(fd, 8),
                                                NumOf(t.val[2][2])))
                 ELSE [exc |-> "none", out |-> <<>>]}})
          : t \in {unpack_II(big, ReadBytes(fd, 8))}})

\* read_var_header with the length of the tag read as a signed integer
SignedOf(v) == IF v[2] >= 32768 THEN (v[2] - 65536) * 65536 + v[3]
               ELSE NumOf(v)
read_var_header_signed(fd, big) ==
    LET none(e, f) ==
            [exc |-> e, header |-> NoMatHeader, next_pos |-> 0, fd |-> f]
        headed(h, next_pos) ==
            [exc |-> h.exc, header |-> h.header, next_pos |-> next_pos,
             fd |-> h.fd]
        matrix(t) ==
            IF t.exc # "none" THEN t.exc
            ELSE IF t.val[1] # "tuple" THEN "TypeError"
            ELSE IF t.val[2][1] # IntOf(etypes["miMATRIX"].n)
            THEN "ParseError"
            ELSE "none"
        compressed(t) ==
            /\ t.exc = "none"
            /\ t.val[1] = "tuple"
            /\ t.val[2][1] = IntOf(etypes["miCOMPRESSED"].n)
    IN  Only({
          IF t.exc # "none" THEN none(t.exc, AfterRead(fd, 8))
          ELSE IF t.val[1] # "tuple" THEN none("TypeError", AfterRead(fd, 8))
          ELSE Only({
            IF dcor.exc # "none" THEN none(dcor.exc, AfterRead(fd, 8))
            ELSE Only({
              IF matrix(t2) # "none"
              THEN none(matrix(t2), fd_var)
              ELSE headed(read_header(fd_var, big),
                          AfterRead(fd, 8).pos + SignedOf(t.val[2][2]))
              : <<t2, fd_var>> \in
                  {IF compressed(t)
                   THEN <<unpack_II(big, ReadBytes(Stream(dcor.out, 0), 8)),
                          AfterRead(Stream(dcor.out, 0), 8)>>
                   ELSE <<t, AfterRead(fd, 8)>>}})
            : dcor \in
                {IF compressed(t)
                 THEN zlib_decompress(ReadBytes(AfterRead(fd, 8),
                                                NumOf(t.val[2][2])))
                 ELSE [exc |-> "none", out |-> <<>>]}})
          : t \in {unpack_II(big, ReadBytes(fd, 8))}})

\* [exc, header, next_pos, fd]: fd is the stream the variable is read from.
\* dcor.flush() of a stored-block stream is empty.
read_var_header(fd, big) ==
    LET none(e, f) ==
            [exc |-> e, header |-> NoMatHeader, next_pos |-> 0, fd |-> f]
        headed(h, next_pos) ==
            [exc |-> h.exc, header |-> h.header, next_pos |-> next_pos,
             fd |-> h.fd]
        matrix(t) ==
            IF t.exc # "none" THEN t.exc
            ELSE IF t.val[1] # "tuple" THEN "TypeError"
            ELSE IF t.val[2][1] # IntOf(etypes["miMATRIX"].n)
            THEN "ParseError"
            ELSE "none"
        compressed(t) ==
            /\ t.exc = "none"
            /\ t.val[1] = "tuple"
            /\ t.val[2][1] = IntOf(etypes["miCOMPRESSED"].n)
    IN  Only({
          IF t.exc # "none" THEN none(t.exc, AfterRead(fd, 8))
          ELSE IF t.val[1] # "tuple" THEN none("TypeError", AfterRead(fd, 8))
          ELSE Only({
            IF dcor.exc # "none" THEN none(dcor.exc, AfterRead(fd, 8))
            ELSE Only({
              IF matrix(t2) # "none"
              THEN none(matrix(t2), fd_var)
              ELSE headed(read_header(fd_var, big),
                          AfterRead(fd, 8).pos + NumOf(t.val[2][2]))
              : <<t2, fd_var>> \in
                  {IF compressed(t)
                   THEN <<unpack_II(big, ReadBytes(Stream(dcor.out, 0), 8)),
                          AfterRead(Stream(dcor.out, 0), 8)>>
                   ELSE <<t, AfterRead(fd, 8)>>}})
            : dcor \in
                {IF compressed(t)
                 THEN zlib_decompress(ReadBytes(AfterRead(fd, 8),
                                                NumOf(t.val[2][2])))
                 ELSE [exc |-> "none", out |-> <<>>]}})
          : t \in {unpack_II(big, ReadBytes(fd, 8))}})

squeeze(array) == IF PyLen(array) = 1 THEN array[2][1] ELSE array

\* rows of a matrix stored column-major in data (a tuple or bytes)
RowsOf(data, rowcount, colcount) ==
    [r \in 1..Max(rowcount, 0) |->
        List([c \in 1..Max(colcount, 0) |->
                 IF data[1] = "bytes"
                 THEN IntOf(data[2][(c - 1) * rowcount + r])
                 ELSE data[2][(c - 1) * rowcount + r]])]

\* some data[c * rowcount + r] is past the end of data
PastEnd(data, rowcount, colcount) ==
    /\ rowcount > 0
    /\ colcount > 0
    /\ \/ rowcount > PyLen(data)
       \/ colcount > PyLen(data)
       \/ rowcount * colcount > PyLen(data)

\* read_numeric_array without the test of the complex flag
read_numeric_array_no_complex(fd, big, header, data_etypes) ==
    LET rowcount == header.dims[1]
        colcount == header.dims[2]
        rows(d) ==
            IF d.exc # "none" THEN d
            ELSE IF ~IsSequence(d.val) THEN d
            ELSE IF PastEnd(d.val, rowcount, colcount)
            THEN ReadRaised("IndexError", d.fd)
            ELSE Read(squeeze(List(RowsOf(d.val, rowcount, colcount))), d.fd)
    IN  rows(read_elements(fd, big, data_etypes, FALSE))

read_numeric_array(fd, big, header, data_etypes) ==
    LET rowcount == header.dims[1]
        colcount == header.dims[2]
        rows(d) ==
            IF d.exc # "none" THEN d
            ELSE IF ~IsSequence(d.val) THEN d
            ELSE IF PastEnd(d.val, rowcount, colcount)
            THEN ReadRaised("IndexError", d.fd)
            ELSE Read(squeeze(List(RowsOf(d.val, rowcount, colcount))), d.fd)
    IN  IF header.is_complex THEN ReadRaised("ParseError", fd)
        ELSE rows(read_elements(fd, big, data_etypes, FALSE))

\* asstr(bytearray(row)) of a list of byte values
RowStr(row) == Str([i \in 1..PyLen(row) |-> row[2][i][3]])

read_char_array(fd, big, header) ==
    LET strings(a) ==
            IF a.exc # "none" THEN a
            ELSE IF header.dims[1] > 1
            THEN Read(List([i \in 1..PyLen(a.val) |-> RowStr(a.val[2][i])]),
                      a.fd)
            ELSE Read(RowStr(a.val), a.fd)
    IN  strings(read_numeric_array(fd, big, header, {"miUTF8"}))

\* how many variables the row / column loops of a cell or struct array read
\* from fd before the stream runs out (each takes at least 8 bytes)
ReadCount(rows, cols, per, fd) ==
    IF rows <= 0 \/ cols <= 0 THEN 0
    ELSE IF rows > Len(fd.buf) \/ cols > Len(fd.buf) THEN Len(fd.buf) + 1
    ELSE rows * cols * per

RECURSIVE read_var_array(_, _, _)
RECURSIVE read_vars(_, _, _, _)

\* n times: read_var_header, read_var_array, fd.seek(next_pos);
\* val is the list of the arrays read
read_vars(fd, big, n, acc) ==
    IF n = 0 THEN Read(List(acc), fd)
    ELSE Only({
           IF vh.exc # "none" THEN ReadRaised(vh.exc, fd)
           ELSE Only({
                  IF v.exc # "none" THEN ReadRaised(v.exc, fd)
                  ELSE read_vars(Stream(fd.buf, vh.next_pos), big, n - 1,
                                 Append(acc, v.val))
                  : v \in {read_var_array(vh.fd, big, vh.header)}})
           : vh \in {read_var_header(fd, big)}})

read_cell_array(fd, big, header) ==
    LET rows == header.dims[1]
        cols == header.dims[2]
        array(vs) ==
            [r \in 1..Max(rows, 0) |->
                List([c \in 1..(IF cols > 0 THEN cols ELSE 0) |->
                         vs[(r - 1) * cols + c]])]
        packed(a) == IF rows = 1 THEN squeeze(a[1]) ELSE squeeze(List(a))
    IN  Only({IF vs.exc # "none" THEN vs
              ELSE Read(packed(array(vs.val[2])), vs.fd)
              : vs \in {read_vars(fd, big, ReadCount(rows, cols, 1, fd),
                                  <<>>)}})

\* Field names are taken to be distinct, as those of a dict written by
\* savemat are.
read_struct_array(fd, big, header) ==
    LET rows == header.dims[1]
        cols == header.dims[2]
        column(vs, f, nf) ==
            squeeze(List([r \in 1..rows |->
                squeeze(List([c \in 1..cols |->
                    vs[((r - 1) * cols + (c - 1)) * nf + f]]))]))
        names(nm) == IF IsStr(nm.val) THEN <<nm.val>> ELSE nm.val[2]
    IN  Only({
          IF fnl.exc # "none" THEN fnl
          ELSE IF ~IsInt(fnl.val) THEN ReadRaised("TypeError", fnl.fd)
          ELSE IF IntGT(fnl.val, IntOf(32))
          THEN ReadRaised("ParseError", fnl.fd)
          ELSE Only({
            IF nm.exc # "none" THEN nm
            ELSE Only({
              IF vs.exc # "none" THEN vs
              ELSE IF rows <= 0 \/ cols <= 0
              THEN ReadRaised("KeyError", vs.fd)
              ELSE Read(Dict([f \in 1..Len(fields) |->
                                 <<fields[f][2],
                                   column(vs.val[2], f, Len(fields))>>]),
                        vs.fd)
              : <<fields, vs>> \in
                  {<<names(nm),
                     read_vars(nm.fd, big,
                               ReadCount(rows, cols, Len(names(nm)), nm.fd),
                               <<>>)>>}})
            : nm \in {read_elements(fnl.fd, big, {"miINT8"}, TRUE)}})
          : fnl \in {read_elements(fd, big, {"miINT32"}, FALSE)}})

\* inv_mclasses[n]
MclassOf(n) == CHOOSE m \in DOMAIN mclasses : mclasses[m] = n

read_var_array(fd, big, header) ==
    LET mc == MclassOf(header.mclass) IN
    IF header.mclass \notin {mclasses[m] : m \in DOMAIN mclasses}
    THEN ReadRaised("KeyError", fd)
    ELSE IF mc \in DOMAIN numeric_class_etypes
    THEN read_numeric_array(fd, big, header,
                            compressed_numeric \cup {numeric_class_etypes[mc]})
    ELSE IF mc = "mxSPARSE_CLASS" THEN ReadRaised("ParseError", fd)
    ELSE IF mc = "mxCHAR_CLASS" THEN read_char_array(fd, big, header)
    ELSE IF mc = "mxCELL_CLASS" THEN read_cell_array(fd, big, header)
    ELSE IF mc = "mxSTRUCT_CLASS" THEN read_struct_array(fd, big, header)
    ELSE IF mc \in {"mxOBJECT_CLASS", "mxFUNCTION_CLASS", "mxOPAQUE_CLASS"}
    THEN ReadRaised("ParseError", fd)
    ELSE Read(None, fd)

\* bytes.strip(): without the leading and trailing whitespace
Strip(bs) ==
    LET kept == {i \in 1..Len(bs) : bs[i] \notin {9, 10, 11, 12, 13, 32}}
    IN  IF kept = {} THEN <<>>
        ELSE SubSeq(bs, CHOOSE i \in kept : \A j \in kept : i <= j,
                    CHOOSE i \in kept : \A j \in kept : i >= j)

\* '%d' % n of a natural number
RECURSIVE Dec(_)
Dec(n) == IF n < 10 THEN <<48 + n>> ELSE Dec(n \div 10) \o <<48 + (n % 10)>>

\* read_file_header(fd, endian) of the stream rewound to 0: [exc, val, fd],
\* val the dict of the header's fields
read_file_header(fd, big) ==
    LET description == ReadBytes(fd, 116)
        fd1 == AfterRead(fd, 116)
        subsystem_offset == ReadBytes(fd1, 8)
        fd2 == AfterRead(fd1, 8)
        version == unpack(big, "H", ReadBytes(fd2, 2))
        fd3 == AfterRead(fd2, 2)
        endian_test == ReadBytes(fd3, 2)
        fd4 == AfterRead(fd3, 2)
    IN  IF version.exc # "none" THEN ReadRaised(version.exc, fd3)
        ELSE IF ~IsInt(version.val) THEN ReadRaised("TypeError", fd4)
        ELSE Read(Dict(<<
                 <<<<100, 101, 115, 99, 114, 105, 112, 116, 105, 111, 110>>,
                   <<"bytes", Strip(description)>> >>,
                 <<<<115, 117, 98, 115, 121, 115, 116, 101, 109, 95, 111, 102,
                     102, 115, 101, 116>>,
                   <<"bytes", subsystem_offset>> >>,
                 <<<<118, 101, 114, 115, 105, 111, 110>>, version.val>>,
                 <<<<101, 110, 100, 105, 97, 110, 95, 116, 101, 115, 116>>,
                   <<"bytes", endian_test>> >>,
                 <<<<95, 95, 118, 101, 114, 115, 105, 111, 110, 95, 95>>,
                   Str(Dec(version.val[3] \div 256) \o <<46>>
                       \o Dec(version.val[3] % 256))>> >>), fd4)

eof(fd) == fd.pos >= Len(fd.buf)
\* the stream as eof(fd) leaves it: one byte read, and the cursor moved
\* back by one when a byte was there
eof_seek(fd) ==
    IF Len(ReadBytes(fd, 1)) = 0 THEN AfterRead(fd, 1)
    ELSE Stream(fd.buf, AfterRead(fd, 1).pos - 1)

\* loadmat's check of bytes 124..127 on a host of the given sys.byteorder:
\* [exc, endian], endian the prefix the rest of the file is unpacked with
loadmat_open(buf, byteorder) ==
    LET tst_str == SubSeq(buf, 125, Min(128, Len(buf)))
        little_endian == Len(tst_str) = 4 /\ SubSeq(tst_str, 3, 4) = <<73, 77>>
        endian == IF (byteorder = "little" /\ little_endian)
                     \/ (byteorder = "big" /\ ~little_endian) THEN ""
                  ELSE IF byteorder = "little" THEN ">"
                  ELSE "<"
        maj_ind == IF little_endian THEN 1 ELSE 0
    IN  IF Len(tst_str) <= maj_ind
        THEN [exc |-> "IndexError", endian |-> endian]
        ELSE IF tst_str[maj_ind + 1] # 1
        THEN [exc |-> "ParseError", endian |-> endian]
        ELSE [exc |-> "none", endian |-> endian]

\* the byte order struct.unpack reads with under prefix endian: '' is the
\* host's own
EndianBig(endian, byteorder) ==
    IF endian = ">" THEN TRUE
    ELSE IF endian = "<" THEN FALSE
    ELSE byteorder = "big"

\* '__header__' and '__globals__'
KeyHeader == <<95, 95, 104, 101, 97, 100, 101, 114, 95, 95>>
KeyGlobals == <<95, 95, 103, 108, 111, 98, 97, 108, 115, 95, 95>>

\* the name is not appended
globals_append_none(mdict, name) == mdict

\* mdict['__globals__'].append(name)
globals_append(mdict, name) ==
    Dict([i \in 1..Len(mdict[2]) |->
             IF mdict[2][i][1] = KeyGlobals
             THEN <<KeyGlobals, List(Append(mdict[2][i][2][2], name))>>
             ELSE mdict[2][i]])

\* mdict as the loop finds it: [exc, mdict], with the file header and an
\* empty list of globals under meta
loadmat_meta(buf, big, meta) ==
    IF ~meta THEN [exc |-> "none", mdict |-> Dict(<<>>)]
    ELSE Only({IF h.exc # "none" THEN [exc |-> h.exc, mdict |-> None]
               ELSE [exc |-> "none",
                     mdict |-> Dict(<< <<KeyHeader, h.val>>,
                                       <<KeyGlobals, List(<<>>)>> >>)]
               : h \in {read_file_header(Stream(buf, 0), big)}})

\* loadmat up to its loop on a host of the given sys.byteorder:
\* [exc, endian, mdict]
loadmat_call(buf, byteorder, meta) ==
    Only({IF o.exc # "none"
          THEN [exc |-> o.exc, endian |-> o.endian, mdict |-> Dict(<<>>)]
          ELSE Only({[exc |-> m.exc, endian |-> o.endian,
                      mdict |-> IF m.exc = "none" THEN m.mdict
                                ELSE Dict(<<>>)]
                     : m \in {loadmat_meta(buf,
                                           EndianBig(o.endian, byteorder),
                                           meta)}})
          : o \in {loadmat_open(buf, byteorder)}})

\* one pass of the loop without the test for a name already in mdict: the
\* later value is appended under the same name
loadmat_var_no_test(fd, big, mdict, meta) ==
    LET res(e, m, f) == [exc |-> e, mdict |-> m, fd |-> f] IN
    Only({
      IF vh.exc # "none" THEN res(vh.exc, mdict, fd)
      ELSE IF ~IsStr(vh.header.name) THEN res("TypeError", mdict, fd)
      ELSE Only({
             IF v.exc # "none" THEN res(v.exc, mdict, fd)
             ELSE res("none",
                      IF meta /\ vh.header.is_global
                      THEN globals_append(
                               Dict(Append(mdict[2],
                                           <<vh.header.name[2], v.val>>)),
                               vh.header.name)
                      ELSE Dict(Append(mdict[2], <<vh.header.name[2], v.val>>)),
                      Stream(fd.buf, vh.next_pos))
             : v \in {read_var_array(vh.fd, big, vh.header)}})
      : vh \in {read_var_header(fd, big)}})

\* one pass of loadmat's while loop: [exc, mdict, fd]
loadmat_var(fd, big, mdict, meta) ==
    LET res(e, m, f) == [exc |-> e, mdict |-> m, fd |-> f] IN
    Only({
      IF vh.exc # "none" THEN res(vh.exc, mdict, fd)
      ELSE IF ~IsStr(vh.header.name) THEN res("TypeError", mdict, fd)
      ELSE IF HasKey(mdict, vh.header.name[2])
      THEN res("ParseError", mdict, fd)
      ELSE Only({
             IF v.exc # "none" THEN res(v.exc, mdict, fd)
             ELSE res("none",
                      IF meta /\ vh.header.is_global
                      THEN globals_append(
                               Dict(Append(mdict[2],
                                           <<vh.header.name[2], v.val>>)),
                               vh.header.name)
                      ELSE Dict(Append(mdict[2], <<vh.header.name[2], v.val>>)),
                      Stream(fd.buf, vh.next_pos))
             : v \in {read_var_array(vh.fd, big, vh.header)}})
      : vh \in {read_var_header(fd, big)}})

RECURSIVE loadmat_loop(_, _, _, _)
loadmat_loop(fd, big, mdict, meta) ==
    IF eof(fd) THEN [exc |-> "none", mdict |-> mdict]
    ELSE Only({IF r.exc # "none" THEN [exc |-> r.exc, mdict |-> None]
               ELSE loadmat_loop(r.fd, big, r.mdict, meta)
               : r \in {loadmat_var(eof_seek(fd), big, mdict, meta)}})

\* loadmat(fd, meta) run to its end on a host of the given sys.byteorder:
\* the exception, or the dict returned
loadmat_run(buf, byteorder, meta) ==
    Only({IF o.exc # "none" THEN [exc |-> o.exc, mdict |-> None]
          ELSE Only({IF m.exc # "none" THEN [exc |-> m.exc, mdict |-> None]
                     ELSE loadmat_loop(Stream(buf, Min(128, Len(buf))),
                                       EndianBig(o.endian, byteorder),
                                       m.mdict, meta)
                     : m \in {loadmat_meta(buf,
                                           EndianBig(o.endian, byteorder),
                                           meta)}})
          : o \in {loadmat_open(buf, byteorder)}})

\* ------------------------------------------------------- value equality

\* 2 * v of the number v (an int, a bool or a float m / 2), where it is
\* below 2^30 in size; "big" above that, where no float of the model lies
Twice(v) ==
    IF v[1] = "float" THEN v[2]
    ELSE LET w == AsInt(v) IN
         IF w[2] >= 8192 \/ w[2] < -8192 THEN <<"big", w>>
         ELSE 2 * (w[2] * 65536 + w[3])

\* Python's ==, by which a decoded tree is compared with the tree encoded
RECURSIVE PyEq(_, _)
PyEq(a, b) ==
    IF (IsInt(a) \/ IsFloat(a)) /\ (IsInt(b) \/ IsFloat(b))
    THEN Twice(a) = Twice(b)
    ELSE IF a[1] = "list" /\ b[1] = "list"
    THEN /\ Len(a[2]) = Len(b[2])
         /\ \A i \in 1..Len(a[2]) : PyEq(a[2][i], b[2][i])
    ELSE IF a[1] = "dict" /\ b[1] = "dict"
    THEN /\ Len(a[2]) = Len(b[2])
         /\ \A i \in 1..Len(a[2]) :
                /\ HasKey(b, a[2][i][1])
                /\ PyEq(a[2][i][2], DictGet(b, a[2][i][1]))
    ELSE a = b

\* ---------------------------------------------------------------- inputs

MaxLen == 2
MaxDim == 3
MaxVars == 2
MaxCut == 4

Hosts == {"little", "big"}

Chr(c) == Str(<<c>>)
StrAB == Str(<<97, 98>>)
Int3e9 == PyInt(45776, 24064)
IntNeg3e9 == PyInt(-45777, 41472)

Scalars ==
    {IntOf(1), IntOf(-1), IntOf(INT32_MAX), PyInt(32768, 0), Int3e9,
     IntNeg3e9, Float(3), Float(4), Bool(TRUE), Bool(FALSE), None,
     Str(<<>>), Chr(97), StrAB, Str(<<104, 101, 108, 108, 111>>)}

Elems == {IntOf(1), Float(3), Chr(97), Bool(TRUE), None}

FlatLists == {List(xs) : xs \in UNION {[1..n -> Elems] : n \in 0..MaxLen}}

\* an R x C list of lists with distinct entries
MatrixKinds == {"int", "float", "mixed", "big", "neg"}
Entry(kind, r, c) ==
    CASE kind = "int" -> IntOf(10 * r + c)
      [] kind = "float" -> Float(2 * (10 * r + c) + 1)
      [] kind = "mixed" -> IF r = 1 /\ c = 1 THEN Float(23) ELSE IntOf(10 * r + c)
      [] kind = "big" -> IF r = 1 /\ c = 1 THEN Int3e9 ELSE IntOf(10 * r + c)
      [] kind = "neg" -> IF r = 1 /\ c = 1 THEN IntNeg3e9 ELSE IntOf(-10 * r - c)
Matrix(kind, R, C) ==
    List([r \in 1..R |-> List([c \in 1..C |-> Entry(kind, r, c)])])
Matrices ==
    {Matrix(k, R, C) : k \in MatrixKinds, R \in 1..MaxDim, C \in 1..MaxDim}

RecX1 == Dict(<< <<<<120>>, IntOf(1)>> >>)
RecXY == Dict(<< <<<<120>>, IntOf(1)>>, <<<<121>>, IntOf(2)>> >>)
FieldVals ==
    {IntOf(1), StrAB, List(<<>>), List(<<List(<<>>)>>),
     List(<<IntOf(1), IntOf(2)>>), Bool(TRUE), None, RecX1, RecXY,
     Dict(<<>>), List(<<RecX1>>)}
Records ==
    {Dict(<<>>)}
    \cup {Dict(<< <<<<97>>, v>> >>) : v \in FieldVals}
    \cup {Dict(<< <<<<97>>, v>>, <<<<98>>, w>> >>) : v, w \in FieldVals}

Cells ==
    {List(<<IntOf(1), Str(<<116, 119, 111>>), List(<<IntOf(3), IntOf(4)>>)>>),
     List(<<List(<<IntOf(1), IntOf(2)>>), StrAB>>),
     List(<<StrAB, Str(<<99, 100>>)>>),
     List(<<StrAB, Chr(99)>>),
     List(<<Chr(97), List(<<IntOf(1), IntOf(2)>>)>>),
     List(<<List(<<IntOf(1), IntOf(2)>>), List(<<IntOf(3)>>)>>),
     List(<<List(<<>>), List(<<>>)>>),
     List(<<RecX1, Dict(<< <<<<120>>, IntOf(2)>> >>)>>),
     List(<<RecX1, IntOf(5)>>),
     List(<<List(<<Matrix("int", 2, 2)>>)>>)}

Values == Scalars \cup FlatLists \cup Matrices \cup Records \cup Cells

\* the variables of a file with several: x, y, z, ...
VarName(i) == <<119 + i>>
TopVals == {IntOf(1), StrAB, Matrix("int", 2, 2), None}
\* names as long as savemat allows, and one byte longer or shorter: of a
\* variable, and of a field beside the short field 'b'
NameMax == 31
NameOf(n) == [i \in 1..n |-> 110]
NameInputs ==
    {Dict(<< <<NameOf(n), IntOf(1)>> >>) : n \in {NameMax, NameMax + 1}}
    \cup {Dict(<< <<VarName(1),
                    Dict(<< <<NameOf(n), IntOf(1)>>, <<<<98>>, StrAB>> >>)>> >>) :
             n \in {NameMax - 1, NameMax, NameMax + 1}}

Inputs ==
    NameInputs \cup
    {Dict(<< <<VarName(1), v>> >>) : v \in Values}
    \cup {Dict([i \in 1..Len(vs) |-> <<VarName(i), vs[i]>>]) :
             vs \in UNION {[1..n -> TopVals] : n \in 2..MaxVars}}
    \cup {Dict(<<>>), List(<<IntOf(1), IntOf(2)>>), IntOf(5), StrAB, None}

\* the files loadmat is given once savemat has written fd: the file itself,
\* the same variables uncompressed, the file with its variables repeated,
\* and the file cut short
MaxRounds == 2
EndCut == 4

Files(f, pl) ==
    {<<"written", f>>, <<"plain", pl>>,
     <<"dup", f \o SubSeq(f, 129, Len(f))>>}
    \cup {<<"cut", SubSeq(f, 1, Len(f) - EndCut * k)>> : k \in 1..MaxCut}
    \cup {<<"cut", SubSeq(pl, 1, Len(pl) - EndCut * k)>> : k \in 1..MaxCut}
    \cup {<<"cut", SubSeq(f, 1, Min(n, Len(f)))>> :
             n \in {0, 127} \cup {128 + k : k \in 1..MaxCut}}

\* the data elements write_elements is tried on by itself
MaxElems == 3
ElemTypes == {"miINT32", "miINT64", "miDOUBLE"}
ElemArgs ==
    {[mtp |-> m, data |-> List(xs), is_name |-> FALSE] :
        m \in ElemTypes,
        xs \in UNION {[1..n -> {IntOf(1), IntOf(2)}] : n \in 0..MaxElems}}
    \cup {[mtp |-> m, data |-> IntOf(1), is_name |-> FALSE] : m \in ElemTypes}
    \cup {[mtp |-> m[1], data |-> <<"bytes", cs>>, is_name |-> m[2]] :
             m \in {<<"miINT8", TRUE>>, <<"miUTF8", FALSE>>},
             cs \in UNION {[1..n -> {97, 98}] : n \in 0..(MaxElems + 2)}}

\* no file of another writer
NoCraft ==
    [family |-> "none", big |-> FALSE, ver |-> <<0, 1>>, mark |-> <<73, 77>>,
     vs |-> <<>>, keep |-> -1]

\* ---------------------------------------------------------- state machine

VARIABLES
    byteorder,  \* sys.byteorder of the host savemat runs on
    data,       \* savemat's argument
    round,      \* 1; 2 once what loadmat returned is saved again
    pc,         \* where the calls are
    fd,         \* the bytes savemat wrote to its output
    idx,        \* the item of data.items() savemat writes next
    sexc,       \* the exception savemat raised
    ends,       \* offsets, in the matrix stream they were written to, at
                \* which a regular-tag data or miMATRIX element ended
    cends,      \* offsets in fd at which each miCOMPRESSED element ended
    plain,      \* the header and the matrix elements, uncompressed
    kind,       \* which of Files loadmat is given
    rorder,     \* sys.byteorder of the host loadmat runs on
    lfd,        \* loadmat's file and cursor
    endian,     \* loadmat's byte order prefix
    mdict,      \* loadmat's dict
    lexc,       \* the exception loadmat raised
    ret,        \* what loadmat returned
    el,         \* a data element written and read by itself
    bypath,     \* the filename arguments are paths, not file objects
    sopen,      \* savemat's stream: "none", "open" or "closed"
    lopen,      \* loadmat's stream: "none", "open" or "closed"
    meta,       \* loadmat's meta argument
    craft,      \* the file of another writer loadmat is given
    cmd         \* the command line converter: arguments, files, position

svars == <<fd, idx, sexc, ends, cends, plain>>
lvars == <<kind, rorder, lfd, endian, mdict, lexc, ret>>
xvars == <<craft, cmd>>
vars == <<byteorder, data, round, pc, fd, idx, sexc, ends, cends, plain, kind,
          rorder, lfd, endian, mdict, lexc, ret, el, bypath, sopen, lopen,
          meta, craft, cmd>>

Big == byteorder = "big"

InitCalls ==
    /\ round = 1
    /\ fd = <<>>
    /\ idx = 0
    /\ sexc = "none"
    /\ ends = {}
    /\ cends = <<>>
    /\ plain = <<>>
    /\ kind = "none"
    /\ rorder = byteorder
    /\ lfd = Stream(<<>>, 0)
    /\ endian = ""
    /\ mdict = Dict(<<>>)
    /\ lexc = "none"
    /\ ret = None
    /\ sopen = "none"
    /\ lopen = "none"

Init ==
    /\ byteorder \in Hosts
    /\ data \in Inputs
    /\ pc = "start"
    /\ el = [pc |-> "idle"]
    /\ bypath \in BOOLEAN
    /\ meta = FALSE
    /\ craft = NoCraft
    /\ cmd = [pc |-> "idle"]
    /\ InitCalls

\* savemat up to the loop: the isinstance test and the file header
SavematOpen ==
    /\ pc = "start"
    /\ IF ~IsMapping(data)
       THEN /\ sexc' = "ValueError"
            /\ pc' = "save_raised"
            /\ UNCHANGED <<fd, idx, plain, sopen>>
       ELSE /\ sopen' = "open"
            /\ fd' = write_file_header(Big)
            /\ plain' = write_file_header(Big)
            /\ idx' = 1
            /\ pc' = "writing"
            /\ UNCHANGED sexc
    /\ UNCHANGED <<byteorder, data, round, ends, cends, el, bypath, lopen,
                   meta>>
    /\ UNCHANGED lvars
    /\ UNCHANGED xvars

\* one pass of savemat's loop: write_compressed_var_array(fd, array, name)
\* write_compressed_var_array writing the tag before the variable is
\* encoded: the tag is in the file when the encoding fails
SavematWriteVar_tag_first ==
    /\ pc = "writing"
    /\ idx <= PyLen(data)
    /\ LET name == data[2][idx][1]
           array == data[2][idx][2]
       IN  \E w \in {write_compressed_var_array(array, name, Big)} :
           IF w.exc # "none"
           THEN /\ sexc' = w.exc
                /\ pc' = "save_raised"
                /\ fd' = fd \o regular_tag(etypes["miCOMPRESSED"].n, 0, Big)
                /\ UNCHANGED <<idx, ends, cends, plain>>
           ELSE /\ fd' = fd \o w.out
                /\ ends' = ends \cup w.ends
                /\ cends' = Append(cends, Len(fd) + Len(w.out))
                /\ plain' = plain \o write_var_array(array, name, Big).out
                /\ idx' = idx + 1
                /\ UNCHANGED <<sexc, pc>>
    /\ UNCHANGED <<byteorder, data, round, el, bypath, sopen, lopen, meta>>
    /\ UNCHANGED lvars
    /\ UNCHANGED xvars

SavematWriteVar ==
    /\ pc = "writing"
    /\ idx <= PyLen(data)
    /\ LET name == data[2][idx][1]
           array == data[2][idx][2]
       IN  \E w \in {write_compressed_var_array(array, name, Big)} :
           IF w.exc # "none"
           THEN /\ sexc' = w.exc
                /\ pc' = "save_raised"
                /\ UNCHANGED <<fd, idx, ends, cends, plain>>
           ELSE /\ fd' = fd \o w.out
                /\ ends' = ends \cup w.ends
                /\ cends' = Append(cends, Len(fd) + Len(w.out))
                /\ plain' = plain \o write_var_array(array, name, Big).out
                /\ idx' = idx + 1
                /\ UNCHANGED <<sexc, pc>>
    /\ UNCHANGED <<byteorder, data, round, el, bypath, sopen, lopen, meta>>
    /\ UNCHANGED lvars
    /\ UNCHANGED xvars

\* the loop is over: fd.close()
SavematClose ==
    /\ pc = "writing"
    /\ idx > PyLen(data)
    /\ pc' = "saved"
    /\ sopen' = "closed"
    /\ UNCHANGED <<byteorder, data, round, el, bypath, lopen, meta>>
    /\ UNCHANGED svars
    /\ UNCHANGED lvars
    /\ UNCHANGED xvars

\* loadmat up to the loop, on one of the files and on either host
LoadmatOpen ==
    /\ pc = "saved"
    /\ \E kf \in Files(fd, plain), rh \in Hosts :
          /\ kf[1] = "written" \/ rh = byteorder
          /\ round = 1 \/ (kf[1] = "written" /\ rh = byteorder)
          /\ kind' = kf[1]
          /\ rorder' = rh
          /\ \E o \in {loadmat_call(kf[2], rh, meta)} :
             /\ endian' = o.endian
             /\ lexc' = o.exc
             /\ mdict' = o.mdict
             /\ pc' = IF o.exc = "none" THEN "reading" ELSE "load_raised"
             /\ lfd' = Stream(kf[2], IF Len(kf[2]) < 128 THEN Len(kf[2])
                                     ELSE 128)
    /\ lopen' = "open"
    /\ UNCHANGED <<byteorder, data, round, ret, el, bypath, sopen, meta>>
    /\ UNCHANGED svars
    /\ UNCHANGED xvars

\* one pass of loadmat's loop
LoadmatReadVar ==
    /\ pc = "reading"
    /\ ~eof(lfd)
    /\ \E r \in {loadmat_var(eof_seek(lfd), EndianBig(endian, rorder), mdict,
                            meta)} :
       /\ lexc' = r.exc
       /\ mdict' = r.mdict
       /\ lfd' = r.fd
       /\ pc' = IF r.exc = "none" THEN "reading" ELSE "load_raised"
    /\ UNCHANGED <<byteorder, data, round, kind, rorder, endian, ret, el,
                   bypath, sopen, lopen, meta>>
    /\ UNCHANGED svars
    /\ UNCHANGED xvars

\* the loop is over: fd.close(), return mdict
LoadmatClose ==
    /\ pc = "reading"
    /\ eof(lfd)
    /\ ret' = mdict
    /\ pc' = "loaded"
    /\ lopen' = "closed"
    /\ UNCHANGED <<byteorder, data, round, kind, rorder, lfd, endian, mdict,
                   lexc, el, bypath, sopen, meta>>
    /\ UNCHANGED svars
    /\ UNCHANGED xvars

\* what loadmat(fd) returned for the file savemat wrote, or for the file of
\* another writer, is given to savemat
Resave ==
    /\ pc = "loaded"
    /\ kind \in {"written", "crafted"}
    /\ ~meta
    /\ rorder = byteorder
    /\ round < MaxRounds
    /\ data' = ret
    /\ round' = round + 1
    /\ pc' = "start"
    /\ fd' = <<>>
    /\ idx' = 0
    /\ sexc' = "none"
    /\ ends' = {}
    /\ cends' = <<>>
    /\ plain' = <<>>
    /\ kind' = "none"
    /\ lfd' = Stream(<<>>, 0)
    /\ endian' = ""
    /\ mdict' = Dict(<<>>)
    /\ lexc' = "none"
    /\ ret' = None
    /\ sopen' = "none"
    /\ lopen' = "none"
    /\ UNCHANGED <<byteorder, rorder, el, bypath, meta>>
    /\ UNCHANGED xvars

Next ==
    \/ SavematOpen
    \/ SavematWriteVar
    \/ SavematClose
    \/ LoadmatOpen
    \/ LoadmatReadVar
    \/ LoadmatClose
    \/ Resave

Spec == Init /\ [][Next]_vars

\* ------------------------------------------- one data element by itself

\* write_elements called on one argument, and read_elements called on the
\* element written and on the same payload under a regular tag, as a file
\* from another writer may hold it
InitElem ==
    /\ byteorder \in Hosts
    /\ data = Dict(<<>>)
    /\ pc = "start"
    /\ el \in {[pc |-> "call", args |-> a] : a \in ElemArgs}
    /\ bypath = FALSE
    /\ meta = FALSE
    /\ craft = NoCraft
    /\ cmd = [pc |-> "idle"]
    /\ InitCalls

WriteElements ==
    /\ el.pc = "call"
    /\ \E w \in {write_elements(el.args.mtp, el.args.data, el.args.is_name,
                                Big)} :
          el' = [pc |-> "written", args |-> el.args, exc |-> w.exc,
                 out |-> w.out]
    /\ UNCHANGED <<byteorder, data, round, pc, bypath, sopen, lopen, meta>>
    /\ UNCHANGED svars
    /\ UNCHANGED lvars
    /\ UNCHANGED xvars

\* the number of bytes struct.pack makes of the element's data
PayloadSize(args) ==
    IF args.data[1] = "bytes" THEN Len(args.data[2])
    ELSE IF args.data[1] = "list"
    THEN Len(args.data[2]) * calcsize(etypes[args.mtp].fmt)
    ELSE calcsize(etypes[args.mtp].fmt)

\* the payload of a written element, whichever form it is in
PayloadOf(out, num_bytes) ==
    IF Len(out) = 8 /\ num_bytes <= 4 THEN SubSeq(out, 5, 4 + num_bytes)
    ELSE SubSeq(out, 9, 8 + num_bytes)

\* a payload under a regular tag in the file's byte order: the type in the
\* first word, the length in the second, zero padding to 8 bytes
RegularForm(n, payload, big) ==
    Order(LE32(n), big) \o Order(LE32(Len(payload)), big) \o payload
    \o Zeros((8 - (Len(payload) % 8)) % 8)

ReadElements ==
    /\ el.pc = "written"
    /\ el.exc = "none"
    /\ \E reg \in {RegularForm(etypes[el.args.mtp].n,
                               PayloadOf(el.out, PayloadSize(el.args)),
                               Big)} :
          el' = [pc |-> "read", args |-> el.args, exc |-> el.exc,
                 out |-> el.out, reg |-> reg,
                 got |-> read_elements(Stream(el.out, 0), Big,
                                       {el.args.mtp}, el.args.is_name),
                 got_reg |-> read_elements(Stream(reg, 0), Big,
                                           {el.args.mtp}, el.args.is_name)]
    /\ UNCHANGED <<byteorder, data, round, pc, bypath, sopen, lopen, meta>>
    /\ UNCHANGED svars
    /\ UNCHANGED lvars
    /\ UNCHANGED xvars

NextElem ==
    \/ WriteElements
    \/ ReadElements

SpecElem == InitElem /\ [][NextElem]_vars

\* ------------------------------------------------ files of other writers
\* loadmat is given a level 5 MAT-file that savemat did not write: a matrix
\* of any class code, with any flags and any number of dimensions, at the
\* top level or inside a cell or a struct, under any version and marker.

MaxClass == 19

\* a variable of such a file: the matrix of class code cls, flags byte flag
\* (2 logical, 4 global, 8 complex) and dimensions dims, holding vals as
\* one data element of type mtp; at "cell" it is the one child of a 1 x 1
\* cell array, at "field" the field 'a' of a 1 x 1 struct; z: compressed
Var(name, cls, flag, dims, mtp, vals, at, z) ==
    [name |-> name, cls |-> cls, flag |-> flag, dims |-> dims, mtp |-> mtp,
     vals |-> vals, at |-> at, z |-> z]

\* the miMATRIX element of a matrix: flags, dims, name, then the body
MatrixForm(cls, flag, dims, name, body, big) ==
    LET content ==
            RegularForm(etypes["miUINT32"].n,
                        Order(LE32(cls + 256 * flag), big) \o Zeros(4), big)
            \o RegularForm(etypes["miINT32"].n,
                           Flatten([i \in 1..Len(dims) |->
                                       pack_i(IntOf(dims[i]), big).out]), big)
            \o RegularForm(etypes["miINT8"].n, name, big)
            \o body
    IN  Order(LE32(etypes["miMATRIX"].n), big)
        \o Order(LE32(Len(content)), big) \o content

\* a cell or struct array of dimensions dims, a struct with fields 'a',
\* 'b', ... (cells: fields = 1): its children are as many as dims and
\* fields say, child k a 1 x (k + 1) int32 row of 10 k + 1, 10 k + 2, ...
Nest(name, cls, dims, fields) ==
    [name |-> name, cls |-> cls, flag |-> 0, dims |-> dims,
     mtp |-> "miINT32", vals |-> <<>>, at |-> "nest", z |-> FALSE,
     fields |-> fields]
NestRow(k) == [j \in 1..(k + 1) |-> IntOf(10 * k + j)]
NestChild(k, big) ==
    MatrixForm(mclasses["mxINT32_CLASS"], 0, <<1, k + 1>>, <<>>,
               RegularForm(etypes["miINT32"].n,
                           pack_all("i", NestRow(k), big).out, big), big)
NestForm(v, big) ==
    MatrixForm(v.cls, 0, v.dims, v.name,
               (IF v.cls = mclasses["mxSTRUCT_CLASS"]
                THEN RegularForm(etypes["miINT32"].n,
                                 pack_i(IntOf(2), big).out, big)
                     \o RegularForm(etypes["miINT8"].n,
                                    Flatten([f \in 1..v.fields |->
                                                <<96 + f, 0>>]), big)
                ELSE <<>>)
               \o Flatten([k \in 1..(v.dims[1] * v.dims[2] * v.fields) |->
                              NestChild(k, big)]),
               big)

\* a 1 x 2 matrix of class cls whose data element has the type code code
\* and holds two values of that type: 200 and 3 in the integer types (-56
\* and 3 as miINT8), 1.5 and 2.0 in miSINGLE and miDOUBLE; two bytes under
\* a code that is not of a number
Typed(name, cls, code) ==
    [name |-> name, cls |-> cls, flag |-> 0, dims |-> <<1, 2>>,
     mtp |-> "", vals |-> <<>>, at |-> "typed", z |-> FALSE, code |-> code]
TypedPayload(code, big) ==
    LET fmt == IF \E m \in DOMAIN etypes : etypes[m].n = code
               THEN etypes[EtypeOf(code)].fmt ELSE ""
        item(n) == Order(<<n>> \o Zeros(calcsize(fmt) - 1), big)
    IN  CASE fmt = "f" -> Order(<<0, 0, 192, 63>>, big)
                          \o Order(<<0, 0, 0, 64>>, big)
          [] fmt = "d" -> pack_all("d", <<Float(3), Float(4)>>, big).out
          [] fmt \in {"b", "B", "h", "H", "i", "I", "q", "Q"} ->
                item(200) \o item(3)
          [] OTHER -> <<200, 3>>
TypedForm(v, big) ==
    MatrixForm(v.cls, 0, v.dims, v.name,
               RegularForm(v.code, TypedPayload(v.code, big), big), big)

\* a 1 x 1 int32 matrix whose top-level tag declares slack bytes more than
\* the element has (fewer when negative), pad zero bytes after the element
Slack(name, val, z, slack, pad) ==
    [name |-> name, cls |-> mclasses["mxINT32_CLASS"], flag |-> 0,
     dims |-> <<1, 1>>, mtp |-> "miINT32", vals |-> <<IntOf(val)>>,
     at |-> "slack", z |-> z, slack |-> slack, pad |-> pad]
SlackForm(v, big) ==
    LET matrix == MatrixForm(v.cls, v.flag, v.dims, v.name,
                             RegularForm(etypes[v.mtp].n,
                                         pack_all("i", v.vals, big).out, big),
                             big)
        tagged(n, body) ==
            Order(LE32(n), big) \o Order(LE32(Len(body) + v.slack), big)
            \o body \o Zeros(v.pad)
    IN  Only({IF v.z
              THEN tagged(etypes["miCOMPRESSED"].n, zlib_compress(m))
              ELSE tagged(etypes["miMATRIX"].n, SubSeq(m, 9, Len(m)))
              : m \in {matrix}})

\* a 1 x 1 int32 matrix whose top-level tag declares the length of the
\* bytes len4 (least significant first) whatever the element has
Declared(name, val, z, len4) ==
    [name |-> name, cls |-> mclasses["mxINT32_CLASS"], flag |-> 0,
     dims |-> <<1, 1>>, mtp |-> "miINT32", vals |-> <<IntOf(val)>>,
     at |-> "declared", z |-> z, len4 |-> len4]
DeclaredForm(v, big) ==
    Only({SubSeq(whole, 1, 4) \o Order(v.len4, big)
          \o SubSeq(whole, 9, Len(whole))
          : whole \in {SlackForm([v EXCEPT !.at = "slack"]
                                 @@ [slack |-> 0, pad |-> 0], big)}})

VarForm(v, big) ==
    LET payload == IF v.mtp \in {"miUTF8", "miUINT8"}
                   THEN [i \in 1..Len(v.vals) |-> v.vals[i][3]]
                   ELSE pack_all(etypes[v.mtp].fmt, v.vals, big).out
        inner(name) ==
            MatrixForm(v.cls, v.flag, v.dims, name,
                       RegularForm(etypes[v.mtp].n, payload, big), big)
        element ==
            CASE v.at = "top" -> inner(v.name)
              [] v.at = "cell" ->
                    MatrixForm(mclasses["mxCELL_CLASS"], 0, <<1, 1>>, v.name,
                               inner(<<>>), big)
              [] v.at = "field" ->
                    MatrixForm(mclasses["mxSTRUCT_CLASS"], 0, <<1, 1>>, v.name,
                               RegularForm(etypes["miINT32"].n,
                                           pack_i(IntOf(2), big).out, big)
                               \o RegularForm(etypes["miINT8"].n, <<97, 0>>,
                                              big)
                               \o inner(<<>>), big)
    IN  IF v.at = "nest" THEN NestForm(v, big)
        ELSE IF v.at = "typed" THEN TypedForm(v, big)
        ELSE IF v.at = "slack" THEN SlackForm(v, big)
        ELSE IF v.at = "declared" THEN DeclaredForm(v, big)
        ELSE Only({IF v.z
                   THEN Order(LE32(etypes["miCOMPRESSED"].n), big)
                        \o Order(LE32(Len(zlib_compress(e))), big)
                        \o zlib_compress(e)
                   ELSE e
                   : e \in {element}})

\* the file: 'MATLAB 5.0 MAT-file' padded with spaces to 116 bytes, eight
\* spaces, the two version bytes, the two marker bytes, the variables;
\* only its first keep bytes when keep is not negative
CraftFile(c) ==
    LET whole ==
            SubSeq(DescText, 1, 19) \o [i \in 1..105 |-> 32] \o c.ver
            \o c.mark
            \o Flatten([i \in 1..Len(c.vs) |-> VarForm(c.vs[i], c.big)])
    IN  IF c.keep < 0 THEN whole ELSE SubSeq(whole, 1, c.keep)

Craft(family, big, ver, mark, vs, keep) ==
    [family |-> family, big |-> big, ver |-> ver, mark |-> mark, vs |-> vs,
     keep |-> keep]

\* a whole file of version 0x0100 in byte order big, rightly marked
Crafted(family, big, vs) ==
    Craft(family, big, IF big THEN <<1, 0>> ELSE <<0, 1>>,
          IF big THEN <<77, 73>> ELSE <<73, 77>>, vs, -1)

\* one 1 x 1 matrix of every class code
ClassCrafts ==
    {Crafted("class", big,
             <<Var(VarName(1), cls, flag, <<1, 1>>, mtp, <<IntOf(97)>>, at,
                   FALSE)>>) :
        big \in BOOLEAN, cls \in 0..MaxClass \cup {255}, flag \in {0, 8},
        mtp \in {"miINT32", "miUTF8"}, at \in {"top", "cell", "field"}}

\* numeric matrices of every number of dimensions, the data as many values
\* as the dimensions say
DimsSet ==
    {<<>>, <<1>>, <<2>>, <<1, 1, 1>>, <<1, 2, 1>>}
    \cup {<<r, c>> : r \in 0..MaxDim, c \in 0..MaxDim}
RECURSIVE Product(_)
Product(dims) == IF Len(dims) = 0 THEN 1 ELSE Head(dims) * Product(Tail(dims))
NumericKinds ==
    {<<"mxINT32_CLASS", "miINT32", IntOf(10)>>,
     <<"mxINT64_CLASS", "miINT64", IntOf(10)>>,
     <<"mxINT64_CLASS", "miINT64", IntNeg3e9>>,
     <<"mxDOUBLE_CLASS", "miDOUBLE", Float(21)>>,
     <<"mxUINT8_CLASS", "miUINT8", IntOf(200)>>,
     <<"mxDOUBLE_CLASS", "miUINT8", IntOf(200)>>}
DimsCrafts ==
    {Crafted("dims", big,
             <<Var(VarName(1), mclasses[k[1]], 0, dims, k[2],
                   [i \in 1..Product(dims) |->
                       IF i = 1 THEN k[3] ELSE IntOf(10 + i)],
                   "top", FALSE)>>) :
        big \in BOOLEAN, dims \in DimsSet, k \in NumericKinds}

\* every version word and marker over one int32 variable, the file whole
\* or ending in or before bytes 124..127
HeaderCrafts ==
    {Craft("header", big, ver, mark,
           <<Var(VarName(1), mclasses["mxINT32_CLASS"], 0, <<1, 1>>,
                 "miINT32", <<IntOf(7)>>, "top", FALSE)>>, keep) :
        big \in BOOLEAN,
        ver \in {<<0, 1>>, <<1, 0>>, <<1, 1>>, <<0, 0>>, <<2, 1>>, <<1, 2>>},
        mark \in {<<73, 77>>, <<77, 73>>, <<88, 88>>},
        keep \in {-1, 0, 124, 125, 126, 127}}

\* up to MaxVars variables x, y, ..., global or not, compressed or not, the
\* flag on the variable itself or on the child of a cell
GlobalVars(i) ==
    {Var(VarName(i), mclasses["mxINT32_CLASS"], flag, <<1, 1>>, "miINT32",
         <<IntOf(i)>>, at, z) :
        flag \in {0, 4}, at \in {"top", "cell"}, z \in BOOLEAN}
GlobalCrafts ==
    {Crafted("globals", FALSE, vs) :
        vs \in UNION {{f \in [1..n -> UNION {GlobalVars(i) : i \in 1..n}] :
                          \A i \in 1..n : f[i] \in GlobalVars(i)} :
                      n \in 0..MaxVars}}
    \cup {Crafted("globals", FALSE,
                  <<Var(KeyGlobals, mclasses["mxINT32_CLASS"], 4, <<1, 1>>,
                        "miINT32", <<IntOf(1)>>, "top", FALSE)>>)}

\* cell and struct arrays of every dims up to MaxNest x MaxNest, the
\* structs with one or two fields
MaxNest == 2
NestCrafts ==
    {Crafted("nest", big,
             <<Nest(VarName(1), mclasses[k[1]], <<r, c>>, k[2])>>) :
        big \in BOOLEAN, r \in 0..MaxNest, c \in 0..MaxNest,
        k \in {<<"mxCELL_CLASS", 1>>, <<"mxSTRUCT_CLASS", 1>>,
                <<"mxSTRUCT_CLASS", 2>>}}

\* a matrix of every numeric class with a data element of every type code
MaxType == 19
TypeCrafts ==
    {Crafted("types", big, <<Typed(VarName(1), mclasses[c], code)>>) :
        big \in BOOLEAN, c \in DOMAIN numeric_class_etypes,
        code \in 0..MaxType}

\* two variables, the first with a tag that declares more or fewer bytes
\* than its element has, with or without bytes between the two
MaxSlack == 8
SlackCrafts ==
    {Crafted("slack", big,
             <<Slack(VarName(1), 7, z[1], slack, pad),
               Slack(VarName(2), 9, z[2], 0, 0)>>) :
        big \in BOOLEAN, z \in BOOLEAN \X BOOLEAN,
        slack \in {-MaxSlack, 0, MaxSlack}, pad \in {0, MaxSlack}}

\* two variables, the first with a tag that declares no bytes, or more
\* bytes than a signed 32-bit integer counts
DeclaredCrafts ==
    {Crafted("declared", big,
             <<Declared(VarName(1), 7, z[1], len4),
               Slack(VarName(2), 9, z[2], 0, 0)>>) :
        big \in BOOLEAN, z \in BOOLEAN \X BOOLEAN,
        len4 \in {<<0, 0, 0, 0>>, <<248, 255, 255, 255>>}}

Crafts ==
    ClassCrafts \cup DimsCrafts \cup HeaderCrafts \cup GlobalCrafts
    \cup NestCrafts \cup TypeCrafts \cup SlackCrafts \cup DeclaredCrafts

InitLoad ==
    /\ byteorder \in Hosts
    /\ data = Dict(<<>>)
    /\ pc = "given"
    /\ el = [pc |-> "idle"]
    /\ bypath \in BOOLEAN
    /\ meta \in BOOLEAN
    /\ craft \in Crafts
    /\ cmd = [pc |-> "idle"]
    /\ InitCalls

\* loadmat up to the loop, on the file of another writer
LoadmatGiven ==
    /\ pc = "given"
    /\ kind' = "crafted"
    /\ rorder' = byteorder
    /\ \E file \in {CraftFile(craft)} :
       \E o \in {loadmat_call(file, byteorder, meta)} :
          /\ endian' = o.endian
          /\ lexc' = o.exc
          /\ mdict' = o.mdict
          /\ pc' = IF o.exc = "none" THEN "reading" ELSE "load_raised"
          /\ lfd' = Stream(file, Min(128, Len(file)))
    /\ lopen' = "open"
    /\ UNCHANGED <<byteorder, data, round, ret, el, bypath, sopen, meta>>
    /\ UNCHANGED svars
    /\ UNCHANGED xvars

NextLoad ==
    \/ LoadmatGiven
    \/ Next

SpecLoad == InitLoad /\ [][NextLoad]_vars

\* ------------------------------------------- the command line converter

\* the longest list of file arguments
MaxFiles == 2

\* a path is its root and its extension, as os.path.splitext divides it
Path(root, ext) == [root |-> root, ext |-> ext]
splitext(path) == <<path.root, path.ext>>

\* str.lower on the extensions of the arguments
lower(ext) == IF ext = ".MAT" THEN ".mat" ELSE ext

ArgPaths == {Path("a", e) : e \in {".mat", ".MAT", ".json", ".txt"}}

\* the files the converter can read or write, and what one holds: nothing,
\* or a content and whether the file was there before the run or was
\* written by it
FilePaths == {Path("a", e) : e \in {".mat", ".MAT", ".json"}}
Absent == <<"absent", "before">>
MatContents == {"mat_ok",     \* loadmat returns a dict
                "mat_bad"}    \* loadmat raises ParseError
JsonContents == {"json_ok",   \* a dict savemat writes
                 "json_list", \* not a dict: savemat raises before it opens
                 "json_null", \* a dict with a null: savemat raises after
                              \* the file header is written
                 "json_bad"}  \* json.load raises
FileSystems ==
    {f \in [FilePaths -> {Absent} \cup {<<c, "before">> :
                                           c \in MatContents \cup JsonContents}] :
        \A q \in FilePaths :
            \/ f[q] = Absent
            \/ f[q][1] \in (IF q.ext = ".json" THEN JsonContents
                            ELSE MatContents)}

\* os.path.exists
exists(files, path) == files[path] # Absent

\* the test is never true
AlreadyExists_never(files, dest, args) == FALSE

\* os.path.exists(dest) and not args.force
AlreadyExists(files, dest, args) == exists(files, dest) /\ ~args.force

\* the argument the loop is at, and its destination
CmdPath == cmd.args.file[cmd.i]
CmdExt == lower(splitext(CmdPath)[2])
CmdDest ==
    Path(splitext(CmdPath)[1], IF CmdExt = ".mat" THEN ".json" ELSE ".mat")

\* how main ends: sys.exit(1) after a printed error, or the exception
\* leaves main
CmdEnd(how, err) == [cmd EXCEPT !.pc = how, !.err = err]

ovars == <<byteorder, data, round, pc, fd, idx, sexc, ends, cends, plain,
           kind, rorder, lfd, endian, mdict, lexc, ret, el, bypath, sopen,
           lopen, meta, craft>>

InitCmd ==
    /\ byteorder = "little"
    /\ data = Dict(<<>>)
    /\ pc = "cmd"
    /\ el = [pc |-> "idle"]
    /\ bypath = TRUE
    /\ meta = FALSE
    /\ craft = NoCraft
    /\ InitCalls
    /\ \E n \in 1..MaxFiles, file \in [1..MaxFiles -> ArgPaths],
          force \in BOOLEAN, remove_input \in BOOLEAN, files \in FileSystems :
          cmd = [pc |-> "loop",
                 args |-> [file |-> SubSeq(file, 1, n), force |-> force,
                           remove_input |-> remove_input],
                 i |-> 1, files |-> files, data |-> "", err |-> ""]

\* the head of the loop for a .mat or .json argument, up to the test of
\* the destination
CmdTest ==
    /\ cmd.pc = "loop"
    /\ cmd.i <= Len(cmd.args.file)
    /\ CmdExt \in {".mat", ".json"}
    /\ cmd' = IF AlreadyExists(cmd.files, CmdDest, cmd.args)
              THEN CmdEnd(IF CmdExt = ".mat" THEN "exit1" ELSE "raised",
                          "already exists")
              ELSE [cmd EXCEPT !.pc = "try"]
    /\ UNCHANGED ovars

\* any other extension
CmdUnsupported ==
    /\ cmd.pc = "loop"
    /\ cmd.i <= Len(cmd.args.file)
    /\ CmdExt \notin {".mat", ".json"}
    /\ cmd' = CmdEnd("exit1", "unsupported")
    /\ UNCHANGED ovars

\* data = loadmat(path), or data = json.load(fp) of open(path)
CmdRead ==
    /\ cmd.pc = "try"
    /\ cmd' = IF CmdExt = ".mat"
              THEN IF cmd.files[CmdPath][1] = "mat_ok"
                   THEN [cmd EXCEPT !.pc = "read", !.data = "mat_ok"]
                   ELSE CmdEnd("exit1", "read")
              ELSE IF cmd.files[CmdPath][1] \in JsonContents \ {"json_bad"}
                   THEN [cmd EXCEPT !.pc = "read",
                                    !.data = cmd.files[CmdPath][1]]
                   ELSE CmdEnd("raised", "read")
    /\ UNCHANGED ovars

\* json.dump(data, fp) to open(dest, 'w'), or savemat(dest, data)
CmdWrite ==
    /\ cmd.pc = "read"
    /\ cmd' = CASE cmd.data = "mat_ok" ->
                     [cmd EXCEPT !.pc = "wrote",
                                 !.files[CmdDest] = <<"json_ok", "cmd">>]
                [] cmd.data = "json_ok" ->
                     [cmd EXCEPT !.pc = "wrote",
                                 !.files[CmdDest] = <<"mat_ok", "cmd">>]
                [] cmd.data = "json_null" ->
                     [CmdEnd("raised", "write") EXCEPT
                         !.files[CmdDest] = <<"mat_header", "cmd">>]
                [] cmd.data = "json_list" -> CmdEnd("raised", "write")
    /\ UNCHANGED ovars

\* if args.remove_input: os.remove(path); then the next argument
CmdRemove ==
    /\ cmd.pc = "wrote"
    /\ cmd' = [cmd EXCEPT !.pc = "loop", !.i = cmd.i + 1, !.data = "",
                          !.files[CmdPath] =
                              IF cmd.args.remove_input THEN Absent ELSE @]
    /\ UNCHANGED ovars

\* the loop is over
CmdDone ==
    /\ cmd.pc = "loop"
    /\ cmd.i > Len(cmd.args.file)
    /\ cmd' = [cmd EXCEPT !.pc = "done"]
    /\ UNCHANGED ovars

NextCmd ==
    \/ CmdTest
    \/ CmdUnsupported
    \/ CmdRead
    \/ CmdWrite
    \/ CmdRemove
    \/ CmdDone

SpecCmd == InitCmd /\ [][NextCmd]_vars

\* ------------------------------------------------------------ properties

\* loadmat's call is over
LoadOver == pc \in {"loaded", "load_raised"}

\* C1: round-trip law. Every tree loadmat returns for a file savemat wrote
\* (data of round 2 is what loadmat returned in round 1) is saved by
\* savemat without an exception, and loadmat of the file written returns,
\* without an exception, a tree equal to it. Stated for a little-endian
\* host.
C1_RoundTrip ==
    (round = 2 /\ byteorder = "little") =>
        /\ pc # "save_raised"
        /\ pc # "load_raised"
        /\ (pc = "loaded" => PyEq(ret, data))

\* C2: compression transparency. loadmat of the file savemat wrote, every
\* variable in a miCOMPRESSED element, ends as loadmat of the file with the
\* same miMATRIX elements uncompressed does: the same record returned, or
\* the same exception.
C2_CompressionTransparent ==
    (kind = "written" /\ LoadOver) =>
        LET p == loadmat_run(plain, rorder, FALSE) IN
        /\ lexc = p.exc
        /\ ret = p.mdict

\* a file with a compressed variable has been decoded to a record with a
\* variable in it
C2_Witness ==
    /\ kind = "written"
    /\ pc = "loaded"
    /\ Len(cends) >= 1
    /\ PyLen(ret) >= 1

\* C3: endian symmetry. The file savemat writes on a host of one byte
\* order is decoded on a host of the other byte order to the record that
\* the value has on a little-endian host alone (written there and decoded
\* there).
C3_EndianSymmetry ==
    (kind = "written" /\ rorder # byteorder /\ LoadOver) =>
        LET same == loadmat_run(savemat_run(data, FALSE).out, "little", FALSE) IN
        /\ lexc = same.exc
        /\ ret = same.mdict

\* a record with one variable, an R x C list of lists of numbers, R > 1
MatrixInputs ==
    {Dict(<< <<VarName(1), Matrix(k, R, C)>> >>) :
        k \in MatrixKinds, R \in 2..MaxDim, C \in 1..MaxDim}

\* the offset in the file of the data element of the first variable, its
\* name one character: the file header, the matrix tag, the array flags,
\* the dimensions and the name
DataStart == 128 + 8 + 16 + 16 + 8

\* C4: column-major invariance. For an R x C list of lists of numbers with
\* R > 1, savemat raises nothing and writes entry (r, c) as item c * R + r
\* of the payload, and loadmat of the file returns the list of lists.
C4_ColumnMajor ==
    (round = 1 /\ data \in MatrixInputs) =>
        LET M == data[2][1][2]
            R == PyLen(M)
            C == PyLen(M[2][1])
            payload == read_elements(Stream(plain, DataStart), Big,
                                     ElemTypes, FALSE)
        IN  /\ pc # "save_raised"
            /\ pc = "saved" =>
                  /\ payload.exc = "none"
                  /\ payload.val[1] = "tuple"
                  /\ Len(payload.val[2]) = R * C
                  /\ \A r \in 1..R, c \in 1..C :
                        PyEq(payload.val[2][(c - 1) * R + r], M[2][r][2][c])
            /\ (kind = "written" /\ rorder = byteorder) =>
                  /\ pc # "load_raised"
                  /\ (pc = "loaded" => PyEq(ret, data))

\* C5: SDE boundary. An element write_elements wrote with a payload of at
\* most 4 bytes is 8 bytes long, the first word (in the byte order of the
\* file) holding the length in its upper 16 bits and the type in its lower
\* 16 bits, the payload after it and zeros after that; an element with a
\* longer payload has the type in its first word, the length in its second
\* and the payload padded to 8 bytes; and read_elements returns the same
\* values for the element written as for its payload under a regular tag.
C5_SDEBoundary ==
    /\ (el.pc \in {"written", "read"} /\ el.exc = "none") =>
          LET n == PayloadSize(el.args)
              mtpn == etypes[el.args.mtp].n
              word == unpack_one("I", Order(SubSeq(el.out, 1, 4), Big))
              len == unpack_one("I", Order(SubSeq(el.out, 5, 8), Big))
          IN  IF n <= 4
              THEN /\ Len(el.out) = 8
                   /\ word = PyInt(n, mtpn)
                   /\ SubSeq(el.out, 5 + n, 8) = Zeros(4 - n)
              ELSE /\ Len(el.out) = 8 + n + ((8 - (n % 8)) % 8)
                   /\ word = PyInt(0, mtpn)
                   /\ len = IntOf(n)
    /\ el.pc = "read" =>
          /\ el.got.exc = "none"
          /\ el.got_reg.exc = "none"
          /\ el.got.val = el.got_reg.val

\* where in fd the i-th top-level element starts, and the length its tag
\* declares
ElementStart(i) == IF i = 1 THEN 128 ELSE cends[i - 1]
DeclaredLength(i) ==
    NumOf(unpack_one("I", Order(SubSeq(fd, ElementStart(i) + 5,
                                       ElementStart(i) + 8), Big)))

\* C6, as the code has it: every data element under a regular tag and
\* every miMATRIX element ends at a multiple of 8 in the stream it is
\* written to, and a top-level miCOMPRESSED element ends where its tag and
\* the length declared in it end, with no padding after it.
C6_Padding ==
    /\ \A e \in ends : e % 8 = 0
    /\ \A i \in 1..Len(cends) :
          cends[i] = ElementStart(i) + 8 + DeclaredLength(i)

\* a file is written whose miCOMPRESSED element ends off a multiple of 8,
\* with padded elements inside it
C6_Witness ==
    /\ pc = "saved"
    /\ ends # {}
    /\ \E i \in 1..Len(cends) : cends[i] % 8 # 0

\* C6: tag padding. After every element savemat writes under a regular
\* tag, the top-level miCOMPRESSED elements among them, the output offset
\* is a multiple of 8.
C6_AllPadded ==
    /\ \A e \in ends : e % 8 = 0
    /\ \A i \in 1..Len(cends) : cends[i] % 8 = 0

\* C7: loadmat returns a record or raises ParseError: no other exception
\* leaves it, and nothing is returned when it raises.
C7_OnlyParseError ==
    pc = "load_raised" => (lexc = "ParseError" /\ ret = None)

\* C8: savemat completes or raises ValueError: no other exception leaves
\* it.
C8_OnlyValueError == pc = "save_raised" => sexc = "ValueError"

\* the variable loadmat is about to read has a name mdict holds already
DuplicateNext ==
    LET vh == read_var_header(lfd, EndianBig(endian, rorder)) IN
    /\ vh.exc = "none"
    /\ IsStr(vh.header.name)
    /\ HasKey(mdict, vh.header.name[2])

\* C9: when the next top-level variable has a name already in the result,
\* loadmat raises ParseError: the result keeps the earlier value and no
\* record is returned.
C9_DuplicateName ==
    [][(pc = "reading" /\ ~eof(lfd) /\ DuplicateNext) =>
           (/\ pc' = "load_raised"
            /\ lexc' = "ParseError"
            /\ mdict' = mdict
            /\ ret' = None)]_vars

\* loadmat has raised ParseError at a variable whose name it had read
\* before
C9_Witness ==
    /\ kind = "dup"
    /\ pc = "load_raised"
    /\ lexc = "ParseError"
    /\ DuplicateNext

\* a None or a bool at any depth of v
RECURSIVE HasNullOrBool(_)
HasNullOrBool(v) ==
    \/ v[1] \in {"None", "bool"}
    \/ v[1] = "list" /\ \E i \in 1..Len(v[2]) : HasNullOrBool(v[2][i])
    \/ v[1] = "dict" /\ \E i \in 1..Len(v[2]) : HasNullOrBool(v[2][i][2])

\* C10: savemat raises for every input with a None or a bool at any depth:
\* it never completes on one.
C10_RejectsNullBool ==
    HasNullOrBool(data) => pc \in {"start", "writing", "save_raised"}

\* every node of v is an int, a float, a string, a list or a record
RECURSIVE SimpleTree(_)
SimpleTree(v) ==
    \/ v[1] \in {"int", "intx", "float", "floatx", "str"}
    \/ v[1] = "list" /\ \A i \in 1..Len(v[2]) : SimpleTree(v[2][i])
    \/ v[1] = "dict" /\ \A i \in 1..Len(v[2]) : SimpleTree(v[2][i][2])

\* C11: every node of the tree loadmat(fd) returns is an int, a float, a
\* string, a list or a record, whatever class codes the file's matrices
\* carry: no None and no bool.
C11_OnlySimpleNodes ==
    (pc = "loaded" /\ ~meta) => SimpleTree(ret)

\* a matrix the decoder does not support: of class Sparse, Object, Function
\* or Opaque, or numeric or char with the complex flag set
UnsupportedVar(v) ==
    \/ v.cls \in {mclasses[m] : m \in {"mxSPARSE_CLASS", "mxOBJECT_CLASS",
                                       "mxFUNCTION_CLASS", "mxOPAQUE_CLASS"}}
    \/ /\ v.flag = 8
       /\ v.cls \in {mclasses[m] : m \in DOMAIN numeric_class_etypes
                                           \cup {"mxCHAR_CLASS"}}

\* C12: a file whose matrix of an unsupported class, or numeric or char
\* matrix with the complex flag, is at the top level, in a cell or in a
\* struct field: loadmat ends by raising ParseError and returns nothing.
C12_Unsupported ==
    (/\ kind = "crafted"
     /\ craft.family = "class"
     /\ UnsupportedVar(craft.vs[1])
     /\ LoadOver)
    => (pc = "load_raised" /\ lexc = "ParseError" /\ ret = None)

\* loadmat has raised ParseError at a complex char matrix in a struct field
C12_Witness ==
    /\ kind = "crafted"
    /\ craft.family = "class"
    /\ craft.vs[1].at = "field"
    /\ craft.vs[1].flag = 8
    /\ craft.vs[1].cls = mclasses["mxCHAR_CLASS"]
    /\ pc = "load_raised"
    /\ lexc = "ParseError"

\* C13: a matrix whose dims element holds one, three or no integers is
\* rejected with ParseError, and a matrix that is decoded has two.
C13_TwoDims ==
    (kind = "crafted" /\ craft.family = "dims")
    => /\ (Len(craft.vs[1].dims) # 2 /\ LoadOver)
          => (pc = "load_raised" /\ lexc = "ParseError")
       /\ pc = "loaded" => Len(craft.vs[1].dims) = 2

\* C14: given paths, the stream savemat opened is closed whenever savemat
\* is over, and the stream loadmat opened whenever loadmat is over, by a
\* return or by an exception.
C14_StreamsClosed ==
    bypath => /\ pc \in {"saved", "save_raised"} => sopen # "open"
              /\ LoadOver => lopen = "closed"

\* the level byte of the version word of file f, the word read in the byte
\* order the marker gives: byte 125 under 'IM', byte 124 otherwise (a file
\* that ends before byte 127 has no 'IM'); -1 when the file ends before it
MarkedLittle(f) == Len(f) >= 128 /\ SubSeq(f, 127, 128) = <<73, 77>>
LevelByte(f) ==
    IF MarkedLittle(f) THEN f[126]
    ELSE IF Len(f) >= 125 THEN f[125]
    ELSE -1

\* C15: loadmat goes on to the variables only when the level byte of the
\* version word is 1 and otherwise raises ParseError with nothing decoded;
\* the byte order it decodes in is the one the marker at offset 126 names.
C15_VersionCheck ==
    [][(pc \in {"saved", "given"} /\ pc' \in {"reading", "load_raised"})
       => IF LevelByte(lfd'.buf) = 1
          THEN /\ ~meta => pc' = "reading"
               /\ lexc' # "ParseError"
               /\ EndianBig(endian', rorder') = ~MarkedLittle(lfd'.buf)
          ELSE /\ pc' = "load_raised"
               /\ lexc' = "ParseError"
               /\ mdict' = Dict(<<>>)]_vars

\* the field-name stride of a record: its longest field name and a NUL
Stride(rec) ==
    1 + (CHOOSE l \in {Len(DictKeys(rec)[i]) : i \in 1..PyLen(rec)} :
            \A i \in 1..PyLen(rec) : Len(DictKeys(rec)[i]) <= l)

\* a variable name above 31 bytes, or a record variable of stride above 32
TooLong(d) ==
    \E i \in 1..PyLen(d) :
        \/ Len(d[2][i][1]) > NameMax
        \/ /\ IsMapping(d[2][i][2])
           /\ PyLen(d[2][i][2]) > 0
           /\ Stride(d[2][i][2]) > NameMax + 1

\* the first variable of savemat's data is a record under a short name, and
\* savemat has written it
StructWritten ==
    /\ IsMapping(data)
    /\ PyLen(data) > 0
    /\ Len(data[2][1][1]) <= 4
    /\ IsMapping(data[2][1][2])
    /\ idx > 1

\* the payload of the field names element of that record, total bytes long
FieldNamesWritten(total) ==
    IF total <= 4 THEN SubSeq(plain, DataStart + 13, DataStart + 12 + total)
    ELSE SubSeq(plain, DataStart + 17, DataStart + 16 + total)

\* C16: savemat never completes on a variable name above 31 bytes or a
\* record of stride above 32, and raises ValueError for one whose values
\* are sound; the record it does write has its stride, at most 32, in the
\* field name length element and every field name NUL-padded to the stride.
C16_NameLimits ==
    /\ (IsMapping(data) /\ TooLong(data))
       => pc \in {"start", "writing", "save_raised"}
    /\ (data \in NameInputs /\ TooLong(data) /\ pc = "save_raised")
       => sexc = "ValueError"
    /\ StructWritten
       => LET rec == data[2][1][2] IN
          /\ Stride(rec) <= NameMax + 1
          /\ SubSeq(plain, DataStart + 5, DataStart + 8)
             = pack_i(IntOf(Stride(rec)), Big).out
          /\ FieldNamesWritten(PyLen(rec) * Stride(rec))
             = Flatten([i \in 1..PyLen(rec) |->
                           DictKeys(rec)[i]
                           \o Zeros(Stride(rec) - Len(DictKeys(rec)[i]))])

\* savemat has written a record of stride 32, with a shorter field name
C16_Witness ==
    /\ StructWritten
    /\ Stride(data[2][1][2]) = NameMax + 1
    /\ \E i \in 1..PyLen(data[2][1][2]) : Len(DictKeys(data[2][1][2])[i]) = 1

\* the variables of a file of another writer, in file order: what lies
\* behind a tag that declares a length of its own choosing is inside that
\* element, or behind it, and no variable of the file
CraftVars(c) ==
    LET own == {i \in 1..Len(c.vs) : c.vs[i].at = "declared"}
    IN  IF own = {} THEN c.vs
        ELSE SubSeq(c.vs, 1, CHOOSE i \in own : \A j \in own : i <= j)
CraftNames(c) == [i \in 1..Len(CraftVars(c)) |-> CraftVars(c)[i].name]

\* those of them whose own matrix header has the global flag, bit 10 of
\* the flags word, as strings
CraftGlobals(c) ==
    LET flagged(v) == (v.flag \div 4) % 2 = 1 /\ v.at = "top"
        named(vs) == [i \in 1..Len(vs) |-> Str(vs[i].name)]
    IN  List(named(SelectSeq(CraftVars(c), flagged)))

\* C17: the record loadmat returns has the file's variable names as its
\* keys, in file order; under meta they come after '__header__' and
\* '__globals__', and '__globals__' lists, in file order, the variables
\* whose header has the global flag.
C17_KeysAndGlobals ==
    (kind = "crafted" /\ craft.keep < 0 /\ pc = "loaded")
    => IF meta
       THEN /\ DictKeys(ret) = <<KeyHeader, KeyGlobals>> \o CraftNames(craft)
            /\ DictGet(ret, KeyGlobals) = CraftGlobals(craft)
       ELSE DictKeys(ret) = CraftNames(craft)

\* loadmat(fd, meta=True) has returned for a file of two variables, the
\* second one global and compressed, the first one neither
C17_Witness ==
    /\ kind = "crafted"
    /\ craft.family = "globals"
    /\ meta
    /\ pc = "loaded"
    /\ Len(craft.vs) = 2
    /\ craft.vs[1].flag = 0
    /\ craft.vs[2].flag = 4 /\ craft.vs[2].at = "top" /\ craft.vs[2].z
    /\ DictGet(ret, KeyGlobals) = List(<<Str(VarName(2))>>)

\* C18: once savemat has written its file header, the file begins with
\* 128 bytes: the description text padded with spaces to 116 bytes, eight
\* spaces, the version word 0x0100 and 'IM' on a little-endian host, 'MI'
\* on a big-endian one; the first data element starts at offset 128.
C18_FileHeader ==
    idx >= 1
    => /\ Len(fd) >= 128
       /\ SubSeq(fd, 1, 116)
          = DescText \o TimeText
            \o [i \in 1..(116 - Len(DescText \o TimeText)) |-> 32]
       /\ SubSeq(fd, 117, 124) = [i \in 1..8 |-> 32]
       /\ SubSeq(fd, 125, 126) = Order(LE16(256), Big)
       /\ SubSeq(fd, 127, 128) = (IF Big THEN <<77, 73>> ELSE <<73, 77>>)
       /\ (idx = 1 => Len(fd) = 128)
       /\ (Len(cends) >= 1 => cends[1] > 128)

\* the file given is one numeric matrix of dimensions dims, real, its data
\* one element of as many values as dims says
NumericOf(dims) ==
    /\ craft.family = "dims"
    /\ craft.vs[1].dims = dims

\* C19: squeeze idempotence. A 1 x 1 numeric matrix decodes to a scalar and
\* not to a list, a 1 x N numeric matrix to a flat list of N values; the
\* record holding a decoded scalar is saved by savemat without an exception
\* and loadmat of the file written returns the record with the same scalar.
C19_Squeeze ==
    /\ (round = 1 /\ NumericOf(<<1, 1>>) /\ LoadOver) =>
           /\ pc = "loaded"
           /\ IsNumber(DictGet(ret, VarName(1)))
    /\ \A n \in 2..MaxDim :
           (round = 1 /\ NumericOf(<<1, n>>) /\ LoadOver) =>
              /\ pc = "loaded"
              /\ DictGet(ret, VarName(1))[1] = "list"
              /\ PyLen(DictGet(ret, VarName(1))) = n
              /\ \A i \in 1..n : IsNumber(DictGet(ret, VarName(1))[2][i])
    /\ (round = 2 /\ NumericOf(<<1, 1>>)) =>
           /\ pc # "save_raised"
           /\ pc # "load_raised"
           /\ (pc = "loaded" => ret = data)

\* C20: without --force the converter never changes the content of a file
\* that exists, and when the destination of an argument exists (.json for
\* a .mat argument, .mat for a .json one) the step that tests it ends the
\* run with every file as it was: nothing is written, the input is not
\* removed.
C20_NoOverwrite ==
    [][(cmd.pc # "idle" /\ ~cmd.args.force) =>
          /\ \A q \in FilePaths :
                exists(cmd.files, q) =>
                   \/ cmd'.files[q] = cmd.files[q]
                   \/ /\ cmd'.files[q] = Absent
                      /\ cmd.pc = "wrote"
                      /\ cmd.args.remove_input
                      /\ q = CmdPath
          /\ (/\ cmd.pc = "loop"
              /\ cmd.i <= Len(cmd.args.file)
              /\ CmdExt \in {".mat", ".json"}
              /\ exists(cmd.files, CmdDest)) =>
                 /\ cmd'.files = cmd.files
                 /\ cmd'.pc \in {"exit1", "raised"}]_vars

\* 'a.mat a.json' without --force: a.mat was converted and kept, and the
\* conversion of a.json has ended at the test, a.mat being there
C20_Witness ==
    /\ cmd.pc = "raised"
    /\ cmd.err = "already exists"
    /\ ~cmd.args.force
    /\ cmd.i = 2
    /\ cmd.args.file = <<Path("a", ".mat"), Path("a", ".json")>>
    /\ cmd.files[Path("a", ".json")] = <<"json_ok", "cmd">>
    /\ cmd.files[Path("a", ".mat")] = <<"mat_ok", "before">>

\* the values savemat's loop gives write_var_array: those of data's items
VarValues ==
    IF IsMapping(data) THEN {data[2][i][2] : i \in 1..PyLen(data)} ELSE {}

\* a list of integers; a list of equally long lists of integers; the same
\* of numbers with a float among them
IsIntList(v) == v[1] = "list" /\ \A i \in 1..PyLen(v) : IsInt(v[2][i])
IsRows(v) ==
    /\ v[1] = "list"
    /\ PyLen(v) >= 1
    /\ \A i \in 1..PyLen(v) :
          v[2][i][1] = "list" /\ PyLen(v[2][i]) = PyLen(v[2][1])
IsIntRows(v) == IsRows(v) /\ \A i \in 1..PyLen(v) : IsIntList(v[2][i])
IsMixedList(v) ==
    /\ v[1] = "list"
    /\ \A i \in 1..PyLen(v) : IsNumber(v[2][i])
    /\ \E i \in 1..PyLen(v) : IsFloat(v[2][i])
IsMixedRows(v) ==
    /\ IsRows(v)
    /\ \A i \in 1..PyLen(v) : \A j \in 1..PyLen(v[2][i]) :
          IsNumber(v[2][i][2][j])
    /\ \E i \in 1..PyLen(v) : IsMixedList(v[2][i])
AboveInt32(v) == IsInt(v) /\ IntGT(v, IntOf(INT32_MAX))

\* guess_header has chosen the class and element type
Chose(v, mc, mtp) ==
    /\ guess_header(v, <<>>).exc = "none"
    /\ guess_header(v, <<>>).header.mclass = mc
    /\ guess_header(v, <<>>).header.mtp = mtp
ChoseByWidth(v, wide) ==
    IF wide THEN Chose(v, "mxINT64_CLASS", "miINT64")
    ELSE Chose(v, "mxINT32_CLASS", "miINT32")

\* C21: integer width rule. For an integer scalar, a list of integers and
\* a list of equally long lists of integers guess_header selects Int64
\* when the value, or the greatest element, is above 2^31-1 and Int32
\* otherwise; a list, or list of equally long lists, of integers and
\* floats is classified Double.
C21_IntegerWidth ==
    \A v \in VarValues :
       /\ IsInt(v) => ChoseByWidth(v, AboveInt32(v))
       /\ IsIntList(v) =>
             ChoseByWidth(v, \E i \in 1..PyLen(v) : AboveInt32(v[2][i]))
       /\ IsIntRows(v) =>
             ChoseByWidth(v, \E i \in 1..PyLen(v) :
                                \E j \in 1..PyLen(v[2][i]) :
                                   AboveInt32(v[2][i][2][j]))
       /\ (IsMixedList(v) \/ IsMixedRows(v)) =>
             Chose(v, "mxDOUBLE_CLASS", "miDOUBLE")

\* the records among the values savemat is given, their fields not null and
\* their field names within the limit
RecordValues ==
    {v \in VarValues :
        /\ IsMapping(v)
        /\ \A i \in 1..PyLen(v) :
              v[2][i][2] # None /\ Len(v[2][i][1]) <= NameMax}

\* the length a field counts with, and the dims the record rule gives
FieldLength(f) == IF IsNumber(f) \/ IsStr(f) THEN 1 ELSE PyLen(f)
RecordDims(v) ==
    IF /\ PyLen(v) > 0
       /\ \A i \in 1..PyLen(v) : TypeOf(v[2][i][2]) = TypeOf(v[2][1][2])
       /\ \A i \in 1..PyLen(v) :
             FieldLength(v[2][i][2]) = FieldLength(v[2][1][2])
    THEN <<1, FieldLength(v[2][1][2])>>
    ELSE <<1, 1>>

\* the children of the struct, in the order they are written: each field
\* as it is, or element [col] of each field, the fields innermost
RecordChildren(v, dims) ==
    IF dims = <<1, 1>> THEN DictValues(v)
    ELSE [k \in 1..(dims[2] * PyLen(v)) |->
             Item(v[2][((k - 1) % PyLen(v)) + 1][2], (k - 1) \div PyLen(v))]

IsSuffix(t, bs) ==
    Len(t) <= Len(bs) /\ SubSeq(bs, Len(bs) - Len(t) + 1, Len(bs)) = t

\* C22: record rule. guess_header classifies every record as Struct, with
\* dims (1, L) when all fields have the same type and the same length L
\* and (1, 1) otherwise; write_struct_array completes for every record
\* whose fields can be written themselves, and its children are each field
\* as it is for a 1 x 1 struct, element [col] of each field for a 1 x L one.
C22_RecordRule ==
    \A v \in RecordValues :
       /\ guess_header(v, <<>>).exc = "none"
       /\ guess_header(v, <<>>).header.mclass = "mxSTRUCT_CLASS"
       /\ guess_header(v, <<>>).header.dims = RecordDims(v)
       /\ (\A i \in 1..PyLen(v) :
              write_var_array(v[2][i][2], <<>>, Big).exc = "none")
          => /\ write_var_array(v, <<>>, Big).exc = "none"
             /\ IsSuffix(
                   Flatten([k \in 1..Len(RecordChildren(v, RecordDims(v))) |->
                              write_var_array(
                                  RecordChildren(v, RecordDims(v))[k], <<>>,
                                  Big).out]),
                   write_var_array(v, <<>>, Big).out)

\* the lists of two or more items among the values savemat is given, no
\* null and no boolean in them
ListValues ==
    {v \in VarValues : v[1] = "list" /\ PyLen(v) >= 2 /\ ~HasNullOrBool(v)}

\* what the earlier rules of the ladder take: a list of numbers, a list of
\* equally long strings, a rectangular list of lists of numbers
IsNumberList(v) == \A i \in 1..PyLen(v) : IsNumber(v[2][i])
IsCharRows(v) ==
    \A i \in 1..PyLen(v) :
       IsStr(v[2][i]) /\ PyLen(v[2][i]) = PyLen(v[2][1])
IsNumberRows(v) ==
    IsRows(v) /\ \A i \in 1..PyLen(v) : IsNumberList(v[2][i])

\* C23: heterogeneous-list rule. Every list of two or more numbers,
\* strings, lists and records that is not a list of numbers, a list of
\* equally long strings or a rectangular list of lists of numbers is
\* classified Cell with dims (1, N); guess_header raises for no list that
\* is free of nulls and booleans.
C23_HeterogeneousList ==
    \A v \in ListValues :
       /\ guess_header(v, <<>>).exc = "none"
       /\ ~(IsNumberList(v) \/ IsCharRows(v) \/ IsNumberRows(v)) =>
             /\ guess_header(v, <<>>).header.mclass = "mxCELL_CLASS"
             /\ guess_header(v, <<>>).header.dims = <<1, PyLen(v)>>

\* the numbers of a decoded value, in the order its lists hold them
RECURSIVE Leaves(_)
Leaves(v) ==
    IF v[1] = "list" THEN Flatten([i \in 1..PyLen(v) |-> Leaves(v[2][i])])
    ELSE <<v>>

\* the cell or struct array loadmat is given
NestVar == craft.vs[1]
NestIsStruct == NestVar.cls = mclasses["mxSTRUCT_CLASS"]

\* the numbers of children f, f + F, f + 2 F, ... of the file, F its number
\* of fields: those of field f, rows outer, columns inner
NestLeaves(f) ==
    Flatten([k \in 1..(NestVar.dims[1] * NestVar.dims[2]) |->
                NestRow((k - 1) * NestVar.fields + f)])

\* the children write_cell_array and write_struct_array are to write for
\* value v under the header guess_header gave it
EncodedChildren(v) ==
    IF IsMapping(v) THEN RecordChildren(v, guess_header(v, <<>>).header.dims)
    ELSE [k \in 1..(guess_header(v, <<>>).header.dims[1]
                    * guess_header(v, <<>>).header.dims[2]) |->
             Item(guess_header(v, <<>>).array, k - 1)]

\* C24: child count and order. From a cell array of dims (R, C) the
\* decoder reads the R*C children of the file, rows outer and columns
\* inner; from a struct array of F fields the R*C*F children, the fields
\* innermost, and the record decoded has the F field names as its keys,
\* for every dims, R*C = 0 included. The encoder writes the children of a
\* cell or struct it is given in the same order, as many as its dims say.
C24_ChildOrder ==
    /\ (craft.family = "nest" /\ round = 1 /\ LoadOver) =>
          /\ pc = "loaded"
          /\ IF NestIsStruct
             THEN /\ DictGet(ret, VarName(1))[1] = "dict"
                  /\ DictKeys(DictGet(ret, VarName(1)))
                     = [f \in 1..NestVar.fields |-> <<96 + f>>]
                  /\ \A f \in 1..NestVar.fields :
                        Leaves(DictGet(DictGet(ret, VarName(1)), <<96 + f>>))
                        = NestLeaves(f)
             ELSE Leaves(DictGet(ret, VarName(1))) = NestLeaves(1)
    /\ (craft.family = "nest" /\ round = 2) =>
          \A v \in VarValues :
             (/\ guess_header(v, <<>>).exc = "none"
              /\ guess_header(v, <<>>).header.mclass
                 \in {"mxCELL_CLASS", "mxSTRUCT_CLASS"}
              /\ write_var_array(v, <<>>, Big).exc = "none")
             => IsSuffix(
                   Flatten([k \in 1..Len(EncodedChildren(v)) |->
                              write_var_array(EncodedChildren(v)[k], <<>>,
                                              Big).out]),
                   write_var_array(v, <<>>, Big).out)

\* the matrix of a numeric class loadmat is given, and the type codes the
\* rule accepts for its data element: that of the class's own element type
\* and those of miINT32, miUINT16, miINT16 and miUINT8
TypedVar == craft.vs[1]
AcceptedCodes(cls) ==
    {etypes[numeric_class_etypes[MclassOf(cls)]].n,
     etypes["miINT32"].n, etypes["miUINT16"].n,
     etypes["miINT16"].n, etypes["miUINT8"].n}

\* the two numbers the data element holds, read as its type
TypedValues(code) ==
    CASE code \in {7, 9} -> List(<<Float(3), Float(4)>>)
      [] code = 1 -> List(<<IntOf(-56), IntOf(3)>>)
      [] OTHER -> List(<<IntOf(200), IntOf(3)>>)

\* C25: numeric type tolerance. The data element of a matrix of a numeric
\* class is decoded, to the numbers it holds read as its own type, when
\* its type code is that of the class's element type or of miINT32,
\* miUINT16, miINT16 or miUINT8; under any other type code loadmat raises
\* ParseError.
C25_TypeTolerance ==
    (craft.family = "types" /\ round = 1 /\ LoadOver) =>
       IF TypedVar.code \in AcceptedCodes(TypedVar.cls)
       THEN /\ pc = "loaded"
            /\ DictGet(ret, VarName(1)) = TypedValues(TypedVar.code)
       ELSE pc = "load_raised" /\ lexc = "ParseError"

\* a Double matrix stored as miUINT8 has been decoded to its integers
C25_Witness ==
    /\ craft.family = "types"
    /\ TypedVar.cls = mclasses["mxDOUBLE_CLASS"]
    /\ TypedVar.code = etypes["miUINT8"].n
    /\ pc = "loaded"
    /\ DictGet(ret, VarName(1)) = List(<<IntOf(200), IntOf(3)>>)

\* the length the tag at the cursor of stream f declares: the unsigned
\* 32-bit word after the type word, in the byte order of the file (a
\* length of 2^30 or more counted as NumOf counts it)
TagLength(f, big) ==
    LET w == Order(SubSeq(f.buf, f.pos + 5, f.pos + 8), big)
    IN  IF w[4] >= 64 THEN 1073741824 + (w[1] % 8)
        ELSE ((w[4] * 256 + w[3]) * 256 + w[2]) * 256 + w[1]

\* C26: cursor resumption. A pass of loadmat's loop that decodes a
\* top-level element, compressed or not, leaves the cursor of the file at
\* the offset just after the element's tag plus the length the tag
\* declares, over the same bytes, whatever the body reader consumed and
\* whatever the inflated size: the next tag is read from there.
C26_CursorResumption ==
    [][(pc = "reading" /\ ~eof(lfd) /\ pc' = "reading")
       => /\ lfd'.buf = lfd.buf
          /\ lfd'.pos = lfd.pos + 8
                        + TagLength(lfd, EndianBig(endian, rorder))]_vars

\* the first variable's tag declared more bytes than its element has, other
\* bytes lie between the elements, and the second variable has been read
\* from the offset declared: both are in the record returned
C26_Witness ==
    /\ kind = "crafted"
    /\ craft.family = "slack"
    /\ craft.vs[1].slack > 0
    /\ craft.vs[1].z
    /\ pc = "loaded"
    /\ DictGet(ret, VarName(2)) = IntOf(9)

\* C27: every file savemat wrote without raising is accepted by loadmat:
\* loadmat(fd) of the file does not raise, and the keys of the record it
\* returns are the names of the variables given to savemat, in their order.
C27_WrittenIsAccepted ==
    (kind = "written" /\ ~meta /\ LoadOver)
    => /\ pc = "loaded"
       /\ DictKeys(ret) = DictKeys(data)

\* the integers of an integer, a list of integers or a list of lists of
\* integers, and the ranges of the two signed element types (an integer is
\* held as 65536 * high + low)
IntElems(v) ==
    IF IsInt(v) THEN {v}
    ELSE IF IsIntList(v) THEN {v[2][i] : i \in 1..PyLen(v)}
    ELSE UNION {{v[2][i][2][j] : j \in 1..PyLen(v[2][i])} : i \in 1..PyLen(v)}
InInt32(e) == AsInt(e)[2] >= -32768 /\ AsInt(e)[2] <= 32767
InInt64(e) == (AsInt(e)[2] \div 65536) \div 32768 \in -65536..65535

\* C28: no overflow at packing. Whenever guess_header classifies an
\* integer, a list of integers or a list of equally long lists of integers
\* as Int32, every element is within -2^31..2^31-1, and whenever as Int64,
\* within -2^63..2^63-1. Stated of the variables savemat was given, once
\* savemat is over.
C28_NoOverflow ==
    \A v \in VarValues :
       (pc \in {"saved", "save_raised"}
        /\ (IsInt(v) \/ IsIntList(v) \/ IsIntRows(v))) =>
          /\ Chose(v, "mxINT32_CLASS", "miINT32") =>
                \A e \in IntElems(v) : InInt32(e)
          /\ Chose(v, "mxINT64_CLASS", "miINT64") =>
                \A e \in IntElems(v) : InInt64(e)

\* the passes of loadmat's loop made so far: each adds one variable
Passes == PyLen(mdict) - (IF meta THEN 2 ELSE 0)

\* C29: decoder termination. The top-level loop of loadmat ends on every
\* file: a pass is made only with the cursor before the end of the file,
\* eof() leaving the cursor where it is; a pass that goes on to another
\* moves the cursor, over the same bytes, to an offset at least 8 past
\* where it started; with the cursor at or past the end loadmat returns.
\* So the passes made are never more than the bytes of the file allow at
\* 8 bytes a pass.
C29_Termination ==
    /\ [][(pc = "reading" /\ pc' = "reading")
          => /\ lfd.pos < Len(lfd.buf)
             /\ lfd'.buf = lfd.buf
             /\ lfd'.pos >= lfd.pos + 8]_vars
    /\ [][(pc = "reading" /\ eof(lfd)) => pc' = "loaded"]_vars
    /\ []((pc = "reading" /\ ~eof(lfd)) => eof_seek(lfd) = lfd)
    /\ [](pc = "reading" =>
             /\ lfd.pos >= 8 * Passes
             /\ Passes > 0 => 8 * Passes < Len(lfd.buf) + 8)

\* the tag of the first variable declared a length with the top bit set:
\* the cursor went past the end of the file and loadmat returned the
\* variable
C29_Witness ==
    /\ kind = "crafted"
    /\ craft.family = "declared"
    /\ craft.vs[1].len4 = <<248, 255, 255, 255>>
    /\ pc = "loaded"
    /\ DictKeys(ret) = <<VarName(1)>>

\* the miCOMPRESSED element of variable i of data: the tag savemat packs,
\* the type in its first byte and the length of the deflated bytes in its
\* second word, and the deflated miMATRIX element of the variable
CompressedElement(i) ==
    LET z == zlib_compress(write_var_array(data[2][i][2], data[2][i][1],
                                           Big).out)
    IN  <<etypes["miCOMPRESSED"].n, 0, 0, 0>> \o Order(LE32(Len(z)), Big) \o z
\* the header and the elements of the first k variables
WholeVariables(k) ==
    write_file_header(Big) \o Flatten([i \in 1..k |-> CompressedElement(i)])

\* C30: whole-variable output. From the opening of the output on, and when
\* savemat has returned or raised, the bytes written are the header of 128
\* bytes and one whole miCOMPRESSED element for each variable encoded so
\* far, in the order of the record: all the variables when savemat has
\* returned, those before the failing one, and nothing of it, when it has
\* raised. For an argument that is not a record savemat raises with the
\* output not opened and nothing written.
C30_WholeVariables ==
    /\ (pc \in {"writing", "saved", "save_raised"} /\ IsMapping(data)) =>
          /\ Len(write_file_header(Big)) = 128
          /\ fd = WholeVariables(idx - 1)
          /\ pc = "saved" => idx - 1 = PyLen(data)
          /\ pc = "save_raised" =>
                /\ idx <= PyLen(data)
                /\ write_var_array(data[2][idx][2], data[2][idx][1],
                                   Big).exc # "none"
    /\ (pc = "save_raised" /\ ~IsMapping(data)) =>
          /\ fd = <<>>
          /\ sopen = "none"

\* savemat has raised on the second variable: the file is the header and
\* the whole element of the first
C30_Witness ==
    /\ pc = "save_raised"
    /\ IsMapping(data)
    /\ idx = 2
    /\ fd = WholeVariables(1)
    /\ Len(fd) > 136

====
